---- MODULE Spec2Model ----
(***************************************************************************)
(* A model of the stattrak demo statistics code.                           *)
(*                                                                         *)
(* The demo is produced tick by tick by the parser library (the event      *)
(* stream with the player properties captured at the tick of each event);  *)
(* the controllers of stattrakServer then filter and fold the parsed       *)
(* lists (flashes.ts, kills, leaderboard), the Go prototype folds the      *)
(* stream in its event handlers, and the services map the stored tables.   *)
(***************************************************************************)
EXTENDS Integers, Sequences, FiniteSets, TLC

(***************************************************************************)
(* Bounds of the model.                                                    *)
(***************************************************************************)
MaxBlinds == 2
MaxThrows == 1
MaxGrenades == 3
MaxDeaths == 1
MaxRounds == 1
MaxFrames == 3
MaxRoundRows == 2
MaxRoundEnds == 3
MaxKillRows == 3
MaxDemoRounds == 2
MaxWeaponEvents == 3
MaxChatRows == 3
MaxFileBlinds == 2
MaxKills == 3
MaxFlashRows == 3
MaxCareerMatches == 4
MaxEntries == 3
MaxChunks == 3
MaxSignals == 3

(***************************************************************************)
(* Small input sets.                                                       *)
(***************************************************************************)
Players == {"A", "B", "C"}
Throwers == {"A", "C"}
SideChanges == {Players, {"B"}}
Durations == {1, 2}
EntityIds == {1, 2}
GrenadeTypes == {"flashbang", "smoke"}
MatchIds == {"m1", "m2"}
RoundNumbers == {1, 2}
StoredReasons == {"TARGET_BOMBED", "CT_ELIMINATION", "reason_99"}
Sides == {"CT", "T"}
RoundEndInputs == {<<"T", 1>>, <<"CT", 8>>, <<"T", 9>>, <<"CT", 99>>}
KillTicks == {1, 2}
Victims == {"B", "C"}
Hitgroups == {"head", "chest"}
Assisters == {"", "B"}
SteamIds == {"7656A", "7656B"}
Weapons == {"ak47", "awp"}
WeaponEvents == {"shot_hit", "shot_miss", "kill_head", "kill_body"}
ChatTexts == {"gg", "ez"}
DemoPaths == {"nukeDemo.dem", "otherDemo.dem"}
Instances == {1, 2}
Names == {"ann", "bob"}
TeammatesFlashed == {0, 1, 2}
Pages == {1, 2, 3}
Limits == {1, 2}
Results == {"WIN", "LOSS", "TIE"}
PaginatedServices == {"getTeamFlashLeaderboard", "getMatches", "getPlayerMatches"}
DetectionMethods == {"downloadMatch", "pollAllSources", "getSourceSummary"}
Chunks == {"{", "}", "null"}
ExitCodes == {0, 1}
Signals == {"SIGTERM", "SIGINT"}
QueryValues == {"absent", "abc", "0", "-3", "5", "7up", "250"}
PaginatedControllers ==
  {"MatchController.getMatches", "PlayerController.getPlayerMatches",
   "FlashController.getTeamFlashLeaderboard", "DamageController.getTeamDamageLeaderboard"}

VARIABLES
  team,            \* match state: current team_num of every player
  isWarmup,        \* match state: is_warmup_period at the current tick
  swapped,         \* match state: the halftime side swap has happened
  tick,            \* current tick of the demo
  teamAt,          \* history: teamAt[t] is the team assignment at tick t
  blinds,          \* what parseEvent(filePath, "player_blind", ...) returns
  grenades,        \* what parseGrenades(filePath) returns
  pc,              \* position of the request being served
  flashEvents,     \* getFlashes: const flashEvents
  flashesByPlayer, \* getFlashes: const flashesByPlayer
  leaderboard,     \* getFlashes: let leaderboard
  idx,             \* getFlashes: number of events the forEach has visited
  roundsPlayed,    \* match state: total_rounds_played at the current tick
  deaths,          \* what parseEvent(filePath, "player_death", ...) returns
  validKills,      \* killsPerRound: const validKills
  latestRoundWithKill, \* killsPerRound: const latestRoundWithKill
  round,           \* killsPerRound: the loop variable
  killsPerPlayer,  \* killsPerRound: const killsPerPlayer
  goPc,            \* extractStats.go: position of main
  frame,           \* extractStats.go: frames the parser has read
  series,          \* extractStats.go: the rows of Players, Attackers, FlashDurations
  stdout,          \* extractStats.go: what the process has printed
  failed,          \* history: the reader or the decoder has reported a fatal error
  matchesTable,    \* file store: the match ids of matches.json
  roundsTable,     \* file store: the rows of rounds.json
  response,        \* match service: what the request returned or threw
  ctScore,         \* match state: rounds won by the CT side
  tScore,          \* match state: rounds won by the T side
  roundEnds,       \* history: the RoundEnd events observed
  roundRecords,    \* round aggregator: the RoundRecords emitted
  aggState,        \* round aggregator: Streaming or Aborted
  killsTable,      \* file store / stats.kills: the rows of the kills table
  sqlResponse,     \* SQL match service: what the request returned or threw
  demo,            \* ETL: tick and round of the demo of every match
  teamEvents,      \* what parseEvent(filePath, "player_team") returns
  order,           \* getFlashes: the keys of leaderboard in insertion order
  playerRecords,   \* getLeaderBoard: leaderboard.playerRecords
  previous,        \* history: what the request before this one answered
  weaponTable,     \* file store: the rows of weapon_stats.json
  chatTable,       \* file store: the rows of chat_messages.json
  demoFiles,       \* what parseEvent returns for every demo path
  task,            \* position and locals of every concurrent getFlashes call
  flashStats,      \* file store / stats.flash_stats: the rows of the flash_stats table
  performanceHistory, \* career: the results of career.performanceHistory, oldest first
  streakLoop,      \* calculateMilestones: position and locals of the streak loop
  milestones,      \* calculateMilestones: the streak fields of the milestones returned
  entries,         \* file store: the list a paginated service slices (allMatches, allEntries)
  pager,           \* a client that asks a paginated service for page after page
  request,         \* controllers: what the paginated request handed to its service, or its error
  script,          \* match detection: the spawned python process (method, state, stdout, exit code)
  execution,       \* match detection: the promise of executePythonScript
  answer,          \* match detection: how the promise of the service method settled
  signals,         \* server.ts: the signals the process has received
  httpServer,      \* server.ts: state of httpServer and its close callbacks
  pool,            \* pool.ts: state of the pg pool and the calls of pool.end()
  exit             \* server.ts: whether the process has exited, and its code

vars == <<team, isWarmup, swapped, tick, teamAt, blinds, grenades, pc,
          flashEvents, flashesByPlayer, leaderboard, idx,
          roundsPlayed, deaths, validKills, latestRoundWithKill, round,
          killsPerPlayer, goPc, frame, series, stdout, failed,
          matchesTable, roundsTable, response,
          ctScore, tScore, roundEnds, roundRecords, aggState,
          killsTable, sqlResponse, demo,
          teamEvents, order, playerRecords, previous, weaponTable, chatTable,
          demoFiles,
          task,
          flashStats,
          performanceHistory,
          streakLoop,
          milestones,
          entries,
          pager,
          request,
          script,
          execution,
          answer,
          signals,
          httpServer,
          pool,
          exit>>

goProcVars == <<goPc, frame, series, stdout, failed>>
storeVars == <<matchesTable, roundsTable, response>>
roundVars == <<ctScore, tScore, roundEnds, roundRecords, aggState>>
lateVars == <<demoFiles, task, flashStats, performanceHistory, streakLoop, milestones, entries, pager, request, script, execution, answer, signals, httpServer, pool, exit>>
tableVars == <<weaponTable, chatTable>>
serviceVars == <<killsTable, sqlResponse, demo, tableVars, lateVars>>
goVars == <<goProcVars, storeVars, roundVars, serviceVars>>

trackerVars == <<team, isWarmup, swapped, tick, teamAt, roundsPlayed>>
flashVars == <<flashEvents, flashesByPlayer, leaderboard, idx, order,
               playerRecords, previous>>
killVars == <<validKills, latestRoundWithKill, round, killsPerPlayer>>
parsedVars == <<blinds, grenades, deaths, teamEvents>>

(***************************************************************************)
(* Maps (JavaScript Map): functions whose domain is the set of keys.       *)
(***************************************************************************)
EmptyMap == [k \in {} |-> 0]

MapSet(m, k, v) == [x \in (DOMAIN m) \cup {k} |-> IF x = k THEN v ELSE m[x]]

MapGetOr(m, k, d) == IF k \in DOMAIN m THEN m[k] ELSE d

(***************************************************************************)
(* Initial roster: A and B start on team 2, C on team 3.                   *)
(***************************************************************************)
InitTeam == [p \in Players |-> IF p = "C" THEN 3 ELSE 2]

OtherSide(t) == IF t = 2 THEN 3 ELSE 2

(***************************************************************************)
(* flashes.ts getFlashesThrownByPlayer                                     *)
(***************************************************************************)
IsFlashbang(g) == g.grenade_type = "flashbang"

FindIndex(s, id) ==
  IF \E i \in 1..Len(s) : s[i].entity_id = id
  THEN CHOOSE i \in 1..Len(s) :
         /\ s[i].entity_id = id
         /\ \A j \in 1..(i - 1) : s[j].entity_id # id
  ELSE 0

RECURSIVE FilterByIndex(_, _)
FilterByIndex(s, i) ==
  IF i = 0 THEN <<>>
  ELSE IF i = FindIndex(s, s[i].entity_id)
       THEN Append(FilterByIndex(s, i - 1), s[i])
       ELSE FilterByIndex(s, i - 1)

\* a variant that keeps every record of an entity
DistinctFlashes_NoDedupe(flashes) == flashes

DistinctFlashes(flashes) == FilterByIndex(flashes, Len(flashes))

RECURSIVE CountByName(_, _)
CountByName(s, i) ==
  IF i = 0 THEN EmptyMap
  ELSE LET m == CountByName(s, i - 1)
           n == s[i].name
       IN IF n \in DOMAIN m THEN MapSet(m, n, m[n] + 1) ELSE MapSet(m, n, 1)

getFlashesThrownByPlayer(gs) ==
  LET flashes == SelectSeq(gs, IsFlashbang)
      distinctFlashes == DistinctFlashes(flashes)
  IN CountByName(distinctFlashes, Len(distinctFlashes))

(***************************************************************************)
(* flashes.ts getFlashEvents                                               *)
(***************************************************************************)
NotWarmup(e) == e.is_warmup_period = FALSE

getFlashEvents(bs) == SelectSeq(bs, NotWarmup)

(***************************************************************************)
(* flashes.ts getFlashes: the body of flashEvents.forEach                  *)
(***************************************************************************)
\* a variant that reads the latest team of the roster instead of the event's
IsTeamFlash_Latest(e) == team[e.user_name] = team[e.attacker_name]

IsTeamFlash(e) == e.user_team_num = e.attacker_team_num

UpdateRecord(r, e) ==
  LET r1 == IF IsTeamFlash(e)
            THEN [r EXCEPT !.team_flashes = @ + 1,
                           !.team_flash_time = @ + e.blind_duration]
            ELSE [r EXCEPT !.clean_flashes = @ + 1,
                           !.clean_flash_time = @ + e.blind_duration]
  IN [r1 EXCEPT !.total_flashes = @ + 1,
                !.total_flash_time = @ + e.blind_duration]

NewRecord(e, fbp) ==
  LET r == [username |-> e.user_name,
            team_flashes |-> IF IsTeamFlash(e) THEN 1 ELSE 0,
            clean_flashes |-> IF IsTeamFlash(e) THEN 0 ELSE 1,
            flashes_thrown |-> MapGetOr(fbp, e.user_name, 0),
            total_flashes |-> 1,
            team_flash_time |-> IF IsTeamFlash(e) THEN e.blind_duration ELSE 0,
            clean_flash_time |-> IF IsTeamFlash(e) THEN 0 ELSE e.blind_duration,
            total_flash_time |-> e.blind_duration]
      r1 == IF e.user_team_num = e.attacker_team_num
            THEN [r EXCEPT !.team_flashes = @ + 1]
            ELSE [r EXCEPT !.clean_flashes = @ + 1]
  IN [r1 EXCEPT !.total_flashes = @ + 1]

FlashCallback(lb, fbp, e) ==
  IF e.user_name \in DOMAIN lb
  THEN MapSet(lb, e.user_name, UpdateRecord(lb[e.user_name], e))
  ELSE MapSet(lb, e.user_name, NewRecord(e, fbp))

RECURSIVE ForEachFlash(_, _, _)
ForEachFlash(evs, fbp, i) ==
  IF i = 0 THEN EmptyMap
  ELSE FlashCallback(ForEachFlash(evs, fbp, i - 1), fbp, evs[i])

\* getFlashes as a function of what parseEvent and parseGrenades return
getFlashes(bs, gs) ==
  LET evs == getFlashEvents(bs)
  IN ForEachFlash(evs, getFlashesThrownByPlayer(gs), Len(evs))

(***************************************************************************)
(* leaderboard.ts getLeaderBoard: flashRecord?.field ?? 0                  *)
(***************************************************************************)
StatOf(lb, p, f) == IF p \in DOMAIN lb THEN lb[p][f] ELSE 0

(***************************************************************************)
(* kills.ts killsPerRound                                                  *)
(***************************************************************************)
TeamName(num) == IF num = 3 THEN "CT" ELSE "TERRORIST"

IsEnemyKill(kill) == kill.attacker_team_name # kill.user_team_name

ValidKills(kills) == SelectSeq(SelectSeq(kills, NotWarmup), IsEnemyKill)

\* Math.max(...kills.map(kill => kill.total_rounds_played)); the maximum of
\* no numbers is -Infinity, below every round of the loop as -1 is.
LatestRoundWithKill(kills) ==
  IF Len(kills) = 0 THEN -1
  ELSE CHOOSE m \in {kills[i].total_rounds_played : i \in 1..Len(kills)} :
         \A i \in 1..Len(kills) : kills[i].total_rounds_played <= m

RECURSIVE ForEachKill(_, _, _)
ForEachKill(kpp, ks, i) ==
  IF i = 0 THEN kpp
  ELSE LET m == ForEachKill(kpp, ks, i - 1)
           attackerName == ks[i].attacker_name
       IN IF attackerName \in DOMAIN m
          THEN MapSet(m, attackerName, m[attackerName] + 1)
          ELSE MapSet(m, attackerName, 1)

\* a variant that counts the kills of every round in each pass of the loop
CountRound_EveryRound(kpp, valid, r) == ForEachKill(kpp, valid, Len(valid))

\* the body of the loop over the rounds
CountRound(kpp, valid, r) ==
  LET killsThisRound == SelectSeq(valid, LAMBDA kill : kill.total_rounds_played = r)
  IN ForEachKill(kpp, killsThisRound, Len(killsThisRound))

RECURSIVE KillsLoop(_, _, _)
KillsLoop(valid, r, latest) ==
  IF r < 0 THEN EmptyMap
  ELSE CountRound(KillsLoop(valid, r - 1, latest), valid, r)

\* killsPerRound as a function of what parseEvent returns
killsPerRound(kills) ==
  KillsLoop(ValidKills(kills), LatestRoundWithKill(kills), LatestRoundWithKill(kills))

(***************************************************************************)
(* The demo as the parser library reads it: every event carries the tick   *)
(* and the player properties (team_num, is_warmup_period) at that tick.    *)
(***************************************************************************)
Advance ==
  /\ tick' = tick + 1
  /\ teamAt' = Append(teamAt, team')

PlayerBlind(att, vic, dur) ==
  /\ pc = "stream"
  /\ Len(blinds) < MaxBlinds
  /\ blinds' = Append(blinds,
       [attacker_name |-> att, user_name |-> vic, blind_duration |-> dur,
        tick |-> tick + 1, is_warmup_period |-> isWarmup,
        attacker_team_num |-> team[att], user_team_num |-> team[vic]])
  /\ UNCHANGED <<team, isWarmup, swapped, roundsPlayed>>
  /\ Advance
  /\ UNCHANGED <<grenades, deaths, teamEvents, pc, flashVars, killVars, goVars>>

GrenadeRecord(limit, type, id, name) ==
  /\ pc = "stream"
  /\ Len(grenades) < limit
  /\ grenades' = Append(grenades,
       [grenade_type |-> type, entity_id |-> id, name |-> name,
        warmup |-> isWarmup])
  /\ UNCHANGED <<trackerVars, blinds, deaths, teamEvents, pc, flashVars, killVars, goVars>>

WarmupEnd ==
  /\ pc = "stream"
  /\ isWarmup
  /\ isWarmup' = FALSE
  /\ UNCHANGED <<team, swapped, tick, teamAt, roundsPlayed>>
  /\ UNCHANGED <<parsedVars, pc, flashVars, killVars, goVars>>

\* the steam id of a player
SteamIdOf(p) == CASE p = "A" -> "7656A" [] p = "B" -> "7656B" [] p = "C" -> "7656C"

\* the player_team events of the players of S, who leave the side old[p]
TeamEventsOf(S, old, t) ==
  LET evOf(p) == [user_name |-> p, user_steamid |-> SteamIdOf(p),
                  oldteam |-> old[p], team |-> OtherSide(old[p]), tick |-> t]
  IN SelectSeq(<<evOf("A"), evOf("B"), evOf("C")>>, LAMBDA e : e.user_name \in S)

\* the player_team events of the players who join their first team
JoinEvents ==
  [i \in 1..3 |->
     LET p == <<"A", "B", "C">>[i]
     IN [user_name |-> p, user_steamid |-> SteamIdOf(p),
         oldteam |-> 0, team |-> InitTeam[p], tick |-> 0]]

\* player_team events of one tick: the players of S change sides (all of
\* them at halftime, one of them when a single player switches).
TeamAssign(S) ==
  /\ pc = "stream"
  /\ ~isWarmup
  /\ ~swapped
  /\ swapped' = TRUE
  /\ team' = [p \in Players |-> IF p \in S THEN OtherSide(team[p]) ELSE team[p]]
  /\ teamEvents' = teamEvents \o TeamEventsOf(S, team, tick + 1)
  /\ UNCHANGED <<isWarmup, roundsPlayed>>
  /\ Advance
  /\ UNCHANGED <<blinds, grenades, deaths, pc, flashVars, killVars, goVars>>

\* a player_death event with the properties asked of the parser
PlayerDeathUpTo(limit, att, vic) ==
  /\ pc = "stream"
  /\ Len(deaths) < limit
  /\ deaths' = Append(deaths,
       [attacker_name |-> att, user_name |-> vic, tick |-> tick + 1,
        is_warmup_period |-> isWarmup, total_rounds_played |-> roundsPlayed,
        attacker_team_name |-> TeamName(team[att]),
        user_team_name |-> TeamName(team[vic])])
  /\ UNCHANGED <<team, isWarmup, swapped, roundsPlayed>>
  /\ Advance
  /\ UNCHANGED <<blinds, grenades, teamEvents, pc, flashVars, killVars, goVars>>

PlayerDeath(att, vic) == PlayerDeathUpTo(MaxDeaths, att, vic)

\* a round of the live match ends: total_rounds_played grows
RoundPlayed ==
  /\ pc = "stream"
  /\ ~isWarmup
  /\ roundsPlayed < MaxRounds
  /\ roundsPlayed' = roundsPlayed + 1
  /\ UNCHANGED <<team, isWarmup, swapped, tick, teamAt>>
  /\ UNCHANGED <<parsedVars, pc, flashVars, killVars, goVars>>

(***************************************************************************)
(* flashes.ts getFlashes, one step per statement / forEach iteration       *)
(***************************************************************************)
\* a variant whose map outlives the request (a variable of the module)
NewLeaderboard_Kept(old) == old

\* let leaderboard = new Map<string, FlashStat>()
NewLeaderboard(old) == EmptyMap

\* the statements of getFlashes before the forEach
GetFlashesStart ==
  /\ pc' = "forEach"
  /\ leaderboard' = NewLeaderboard(leaderboard)
  /\ order' = <<>>
  /\ flashEvents' = getFlashEvents(blinds)
  /\ flashesByPlayer' = getFlashesThrownByPlayer(grenades)
  /\ idx' = 0

GetFlashesBegin ==
  /\ pc = "stream"
  /\ GetFlashesStart
  /\ UNCHANGED <<trackerVars, parsedVars, killVars, goVars, playerRecords, previous>>

GetFlashesEach ==
  /\ pc = "forEach"
  /\ idx < Len(flashEvents)
  /\ idx' = idx + 1
  /\ leaderboard' = FlashCallback(leaderboard, flashesByPlayer, flashEvents[idx + 1])
  /\ order' = IF flashEvents[idx + 1].user_name \in DOMAIN leaderboard
              THEN order
              ELSE Append(order, flashEvents[idx + 1].user_name)
  /\ UNCHANGED <<trackerVars, parsedVars, pc, flashEvents, flashesByPlayer, killVars, goVars,
                 playerRecords, previous>>

GetFlashesReturn ==
  /\ pc = "forEach"
  /\ idx = Len(flashEvents)
  /\ pc' = "returned"
  /\ UNCHANGED <<trackerVars, parsedVars, flashVars, killVars, goVars>>

\* getFlashesThrownByPlayer called on its own
GetThrown ==
  /\ pc = "stream"
  /\ pc' = "thrown"
  /\ flashesByPlayer' = getFlashesThrownByPlayer(grenades)
  /\ UNCHANGED <<trackerVars, parsedVars, flashEvents, leaderboard, idx, killVars, goVars,
                 order, playerRecords, previous>>

(***************************************************************************)
(* leaderboard.ts getLeaderBoard                                           *)
(***************************************************************************)
\* the body of players.forEach
LeaderBoardRecord(player, killRecords, flashRecords) ==
  [user_name |-> player.user_name,
   user_steamid |-> player.user_steamid,
   user_kills |-> MapGetOr(killRecords, player.user_name, 0),
   flashes_thrown |-> StatOf(flashRecords, player.user_name, "flashes_thrown"),
   total_flashes |-> StatOf(flashRecords, player.user_name, "total_flashes"),
   clean_flashes |-> StatOf(flashRecords, player.user_name, "clean_flashes"),
   team_flashes |-> StatOf(flashRecords, player.user_name, "team_flashes"),
   total_flash_time |-> StatOf(flashRecords, player.user_name, "total_flash_time"),
   clean_flash_time |-> StatOf(flashRecords, player.user_name, "clean_flash_time"),
   team_flash_time |-> StatOf(flashRecords, player.user_name, "team_flash_time")]

\* getLeaderBoard once getFlashes has returned: one record per player_team event
GetLeaderBoard ==
  /\ pc = "returned"
  /\ pc' = "responded"
  /\ playerRecords' =
       [i \in 1..Len(teamEvents) |->
          LeaderBoardRecord(teamEvents[i], killsPerRound(deaths), leaderboard)]
  /\ UNCHANGED <<trackerVars, parsedVars, flashEvents, flashesByPlayer, leaderboard,
                 idx, order, previous, killVars, goVars>>

\* what a request has answered: the records and the entries of the map
Answer == [playerRecords |-> playerRecords, keys |-> order, flashRecords |-> leaderboard]

\* the same request is served again by the same process
GetLeaderBoardAgain ==
  /\ pc = "responded"
  /\ previous = <<>>
  /\ previous' = <<Answer>>
  /\ GetFlashesStart
  /\ UNCHANGED <<trackerVars, parsedVars, killVars, goVars, playerRecords>>

(***************************************************************************)
(* kills.ts killsPerRound, one step per statement / loop iteration         *)
(***************************************************************************)
KillsPerRoundBegin ==
  /\ pc = "stream"
  /\ pc' = "rounds"
  /\ validKills' = ValidKills(deaths)
  /\ latestRoundWithKill' = LatestRoundWithKill(deaths)
  /\ killsPerPlayer' = EmptyMap
  /\ round' = 0
  /\ UNCHANGED <<trackerVars, parsedVars, flashVars, goVars>>

KillsPerRoundLoop ==
  /\ pc = "rounds"
  /\ round <= latestRoundWithKill
  /\ killsPerPlayer' = CountRound(killsPerPlayer, validKills, round)
  /\ round' = round + 1
  /\ UNCHANGED <<trackerVars, parsedVars, flashVars, pc, validKills,
                 latestRoundWithKill, goVars>>

KillsPerRoundReturn ==
  /\ pc = "rounds"
  /\ round > latestRoundWithKill
  /\ pc' = "killsReturned"
  /\ UNCHANGED <<trackerVars, parsedVars, flashVars, killVars, goVars>>

(***************************************************************************)
(* extractStats.go main and getTeamFlashes; the frame loop that ParseToEnd *)
(* runs is the one main.go writes out with ParseNextFrame.                 *)
(***************************************************************************)
tsVars == <<trackerVars, parsedVars, pc, flashVars, killVars, storeVars, roundVars,
           serviceVars>>

\* the pipeline state of a position of main
PipelineState(at) ==
  CASE at \in {"start", "opened"} -> "Uninitialized"
    [] at = "header" -> "HeaderRead"
    [] at = "frames" -> "Streaming"
    [] at \in {"parsed", "printed"} -> "Finalized"
    [] at = "panicked" -> "Aborted"

\* a variant that goes on after an error
AfterCall_Ignore(err, next) == next

\* if err != nil { log.Panic(...) }
AfterCall(err, next) == IF err THEN "panicked" ELSE next

\* the PlayerFlashed handler of getTeamFlashes
TeamFlashHandler(rows, att, vic, dur) ==
  IF team[att] = team[vic]
  THEN Append(rows, [Players |-> vic, Attackers |-> att, FlashDurations |-> dur])
  ELSE rows

TeamFlashPrint(out, att, vic, dur) ==
  IF team[att] = team[vic]
  THEN Append(out, [line |-> "teamflashed", attacker |-> att, player |-> vic,
                    duration |-> dur])
  ELSE out

\* os.Open, dem.NewParser, getPlayers and the print of the player count
GoOpen(err) ==
  /\ goPc = "start"
  /\ goPc' = AfterCall(err, "opened")
  /\ failed' = err
  /\ stdout' = IF err THEN stdout
               ELSE Append(stdout, [line |-> "Number of Players", n |-> 0])
  /\ UNCHANGED <<frame, series, tsVars>>

\* getTeamFlashes registers its handler; ParseToEnd first reads the header
GoParseHeader(err) ==
  /\ goPc = "opened"
  /\ goPc' = AfterCall(err, "header")
  /\ failed' = err
  /\ series' = <<>>
  /\ UNCHANGED <<frame, stdout, tsVars>>

\* the frame loop starts
GoFirstFrame ==
  /\ goPc = "header"
  /\ goPc' = "frames"
  /\ UNCHANGED <<frame, series, stdout, failed, tsVars>>

\* a frame without a PlayerFlashed event
GoFrame ==
  /\ goPc = "frames"
  /\ frame < MaxFrames
  /\ frame' = frame + 1
  /\ UNCHANGED <<goPc, series, stdout, failed, tsVars>>

\* a frame whose PlayerFlashed event is dispatched to the handler
GoFrameFlashed(att, vic, dur) ==
  /\ goPc = "frames"
  /\ frame < MaxFrames
  /\ frame' = frame + 1
  /\ series' = TeamFlashHandler(series, att, vic, dur)
  /\ stdout' = TeamFlashPrint(stdout, att, vic, dur)
  /\ UNCHANGED <<goPc, failed, tsVars>>

\* the parser fails on a frame: log.Panic ends the process, its memory is lost
GoFrameError ==
  /\ goPc = "frames"
  /\ goPc' = AfterCall(TRUE, "parsed")
  /\ failed' = TRUE
  /\ series' = IF goPc' = "panicked" THEN <<>> ELSE series
  /\ UNCHANGED <<frame, stdout, tsVars>>

\* no more frames: ParseToEnd returns nil
GoEndOfDemo ==
  /\ goPc = "frames"
  /\ goPc' = AfterCall(FALSE, "parsed")
  /\ UNCHANGED <<frame, series, stdout, failed, tsVars>>

\* dataframe.New, fmt.Println(df), fmt.Println(df.Describe())
GoPrint ==
  /\ goPc = "parsed"
  /\ goPc' = "printed"
  /\ stdout' = stdout \o <<[line |-> "df", rows |-> series],
                            [line |-> "describe", rows |-> Len(series)]>>
  /\ UNCHANGED <<frame, series, failed, tsVars>>

(***************************************************************************)
(* types/enums RoundEndReason                                              *)
(***************************************************************************)
RoundEndReason ==
  {"TARGET_BOMBED", "BOMB_DEFUSED", "CT_WIN", "T_WIN", "CT_ELIMINATION",
   "T_ELIMINATION", "TIME_RAN_OUT", "HOSTAGES_RESCUED", "TARGET_SAVED", "DRAW"}

(***************************************************************************)
(* database/file-store.ts and services/match.service.ts                    *)
(***************************************************************************)
otherVars == <<trackerVars, parsedVars, pc, flashVars, killVars, goProcVars,
              serviceVars>>

\* insert row after the rows whose round_number is not larger (stable sort)
RECURSIVE InsertByRound(_, _)
InsertByRound(sorted, row) ==
  IF sorted = <<>> THEN <<row>>
  ELSE IF sorted[Len(sorted)].round_number <= row.round_number
       THEN Append(sorted, row)
       ELSE Append(InsertByRound(SubSeq(sorted, 1, Len(sorted) - 1), row),
                   sorted[Len(sorted)])

RECURSIVE SortByRound(_, _)
SortByRound(rows, i) ==
  IF i = 0 THEN <<>> ELSE InsertByRound(SortByRound(rows, i - 1), rows[i])

getRoundsByMatchId(table, matchId) ==
  LET mine == SelectSeq(table, LAMBDA r : r.match_id = matchId)
  IN SortByRound(mine, Len(mine))

RoundOfRow(row) ==
  [matchId |-> row.match_id,
   roundNumber |-> row.round_number,
   winnerSide |-> row.winner_side,
   endReason |-> row.end_reason,
   ctScore |-> row.ct_score,
   tScore |-> row.t_score,
   bombPlanted |-> row.bomb_planted,
   bombDefused |-> row.bomb_defused]

getMatchRounds(matches, table, matchId) ==
  IF matchId \notin matches
  THEN [op |-> "getMatchRounds", status |-> "NotFoundError", body |-> <<>>]
  ELSE LET roundRecs == getRoundsByMatchId(table, matchId)
       IN [op |-> "getMatchRounds", status |-> "ok",
           body |-> [i \in 1..Len(roundRecs) |-> RoundOfRow(roundRecs[i])]]

\* the tables as the ETL has written them
StoreMatch(m) ==
  /\ response.op = "none"
  /\ sqlResponse.op = "none"
  /\ m \notin matchesTable
  /\ matchesTable' = matchesTable \cup {m}
  /\ UNCHANGED <<roundsTable, response, roundVars, otherVars>>

StoreRound(m, n, winner, reason) ==
  /\ response.op = "none"
  /\ Len(roundsTable) < MaxRoundRows
  /\ roundsTable' = Append(roundsTable,
       [match_id |-> m, round_number |-> n, winner_side |-> winner,
        end_reason |-> reason,
        ct_score |-> IF winner = "CT" THEN 1 ELSE 0,
        t_score |-> IF winner = "T" THEN 1 ELSE 0,
        bomb_planted |-> (reason = "TARGET_BOMBED"),
        bomb_defused |-> FALSE])
  /\ UNCHANGED <<matchesTable, response, roundVars, otherVars>>

GetMatchRounds(matchId) ==
  /\ response.op = "none"
  /\ response' = getMatchRounds(matchesTable, roundsTable, matchId)
  /\ UNCHANGED <<matchesTable, roundsTable, roundVars, otherVars>>

(***************************************************************************)
(* Match state tracker and round aggregator on RoundEnd                    *)
(***************************************************************************)
\* the fixed table from reason codes to end reasons
EndReasonTable ==
  [code \in {1, 7, 8, 9, 11, 12} |->
     CASE code = 1 -> "TARGET_BOMBED"
       [] code = 7 -> "BOMB_DEFUSED"
       [] code = 8 -> "CT_ELIMINATION"
       [] code = 9 -> "T_ELIMINATION"
       [] code = 11 -> "HOSTAGES_RESCUED"
       [] code = 12 -> "TIME_RAN_OUT"]

\* a variant that also counts the rounds of the warmup
ScoreAfter_Warmup(score, side, winner, warmup) ==
  IF winner = side THEN score + 1 ELSE score

\* the score of side after a RoundEnd won by winner
ScoreAfter(score, side, winner, warmup) ==
  IF ~warmup /\ winner = side THEN score + 1 ELSE score

\* a variant that snapshots the scores as they were when the round started
ScoreSnapshot_AtRoundStart(before, after) == before

\* the score a RoundRecord carries: MatchState after the round's own result
ScoreSnapshot(before, after) == after

RoundEnd(winner, code) ==
  /\ pc = "stream"
  /\ aggState = "Streaming"
  /\ Len(roundEnds) < MaxRoundEnds
  /\ roundEnds' = Append(roundEnds,
       [winner |-> winner, reason |-> code, isWarmup |-> isWarmup])
  /\ ctScore' = ScoreAfter(ctScore, "CT", winner, isWarmup)
  /\ tScore' = ScoreAfter(tScore, "T", winner, isWarmup)
  /\ IF isWarmup
     THEN UNCHANGED <<roundRecords, aggState>>
     ELSE IF code \in DOMAIN EndReasonTable
          THEN /\ roundRecords' = Append(roundRecords,
                    [roundNumber |-> Len(roundRecords) + 1,
                     winnerSide |-> winner,
                     endReason |-> EndReasonTable[code],
                     ctScoreAfter |-> ScoreSnapshot(ctScore, ctScore'),
                     tScoreAfter |-> ScoreSnapshot(tScore, tScore')])
               /\ UNCHANGED aggState
          ELSE /\ aggState' = "Aborted"
               /\ roundRecords' = <<>>
  /\ UNCHANGED <<storeVars, otherVars>>

(***************************************************************************)
(* The kills table: fileStore.getKillsByMatchId and the two getMatchKills  *)
(***************************************************************************)
coreVars == <<trackerVars, parsedVars, pc, flashVars, killVars, goProcVars, roundVars,
             lateVars>>
baseVars == <<coreVars, tableVars>>

\* a variant whose comparator looks at the round only
KillCompare_RoundOnly(a, b) == a.round_number - b.round_number

\* the comparator of the sort: negative when a comes first
KillCompare(a, b) ==
  IF a.round_number # b.round_number
  THEN a.round_number - b.round_number
  ELSE a.tick - b.tick

\* Array.prototype.sort is stable: a row goes after the rows not larger
RECURSIVE InsertKill(_, _)
InsertKill(sorted, row) ==
  IF sorted = <<>> THEN <<row>>
  ELSE IF KillCompare(sorted[Len(sorted)], row) <= 0
       THEN Append(sorted, row)
       ELSE Append(InsertKill(SubSeq(sorted, 1, Len(sorted) - 1), row),
                   sorted[Len(sorted)])

RECURSIVE SortKills(_, _)
SortKills(rows, i) ==
  IF i = 0 THEN <<>> ELSE InsertKill(SortKills(rows, i - 1), rows[i])

\* .filter((r) => r.match_id === matchId)
KillsOfMatch(table, matchId) == SelectSeq(table, LAMBDA r : r.match_id = matchId)

getKillsByMatchId(table, matchId) ==
  LET mine == KillsOfMatch(table, matchId)
  IN SortKills(mine, Len(mine))

\* killRecords.map((row, index) => ({ id: index + 1, ... })); weapon, the
\* team fields and the other flags are copied like the fields kept here
KillOfRow(row, id) ==
  [id |-> id,
   matchId |-> row.match_id,
   roundNumber |-> row.round_number,
   tick |-> row.tick,
   victimName |-> row.victim_name,
   headshot |-> row.headshot,
   assisterName |-> row.assister_name,
   flashAssist |-> row.flash_assist]

getMatchKills(matches, table, matchId) ==
  IF matchId \notin matches
  THEN [op |-> "getMatchKills", matchId |-> matchId,
        status |-> "NotFoundError", body |-> <<>>]
  ELSE LET killRecords == getKillsByMatchId(table, matchId)
       IN [op |-> "getMatchKills", matchId |-> matchId, status |-> "ok",
           body |-> [i \in 1..Len(killRecords) |-> KillOfRow(killRecords[i], i)]]

\* the positions of the table whose row is of the match
RowsOfMatch(table, matchId) == {i \in 1..Len(table) : table[i].match_id = matchId}

\* SELECT ... WHERE match_id = $1 ORDER BY round_number ASC, tick ASC: every
\* order of the match's rows that ascends in (round_number, tick); the order
\* of rows equal in both columns is the database's choice
SqlOrders(table, matchId) ==
  LET R == RowsOfMatch(table, matchId)
      n == Cardinality(R)
  IN {o \in [1..n -> R] :
        /\ \A i, j \in 1..n : i # j => o[i] # o[j]
        /\ \A i \in 1..(n - 1) :
             \/ table[o[i]].round_number < table[o[i + 1]].round_number
             \/ /\ table[o[i]].round_number = table[o[i + 1]].round_number
                /\ table[o[i]].tick <= table[o[i + 1]].tick}

\* the SQL service returns result.rows; id is the column of the table
getMatchKillsSql(matches, table, matchId, o) ==
  IF matchId \notin matches
  THEN [op |-> "getMatchKills", matchId |-> matchId,
        status |-> "NotFoundError", body |-> <<>>]
  ELSE [op |-> "getMatchKills", matchId |-> matchId, status |-> "ok",
        body |-> [i \in 1..Len(o) |-> KillOfRow(table[o[i]], o[i])]]

\* a row of the kills table as the ETL has written it
StoreKill(m, n, t, v) ==
  /\ response.op = "none"
  /\ sqlResponse.op = "none"
  /\ Len(killsTable) < MaxKillRows
  /\ killsTable' = Append(killsTable,
       [match_id |-> m, round_number |-> n, tick |-> t, victim_name |-> v,
        headshot |-> FALSE, assister_name |-> "", flash_assist |-> FALSE])
  /\ UNCHANGED <<matchesTable, roundsTable, response, sqlResponse, demo, baseVars>>

GetMatchKills(matchId) ==
  /\ response.op = "none"
  /\ response' = getMatchKills(matchesTable, killsTable, matchId)
  /\ UNCHANGED <<matchesTable, roundsTable, serviceVars, baseVars>>

GetMatchKillsSql(matchId) ==
  /\ sqlResponse.op = "none"
  /\ \E o \in SqlOrders(killsTable, matchId) :
       sqlResponse' = getMatchKillsSql(matchesTable, killsTable, matchId, o)
  /\ UNCHANGED <<storeVars, killsTable, demo, baseVars>>

(***************************************************************************)
(* ETL: the Kill aggregator that writes the kills table                    *)
(***************************************************************************)
\* a player_death event as the demo carries it; the game sets the headshot
\* flag of the event exactly when the fatal hit was to the head
DeathEvent(t, hitgroup, assister, assistedflash) ==
  [tick |-> t, hitgroup |-> hitgroup, headshot |-> (hitgroup = "head"),
   assister_name |-> assister, assistedflash |-> assistedflash]

\* a variant that sets the flag for a hit of any hitgroup
HeadshotOf_AnyHit(e) == e.hitgroup \in Hitgroups

\* the record carries the circumstance flags present on the event
HeadshotOf(e) == e.headshot

\* a variant that trusts the assist-type flag alone
FlashAssistOf_FlagOnly(e) == e.assistedflash

\* true only if the assister is set and the assist was a flash assist
FlashAssistOf(e) == e.assister_name # "" /\ e.assistedflash

\* the row of a death event of match m in round n; event is kept for the
\* properties only, no code reads it
KillRowOf(m, n, v, e) ==
  [match_id |-> m, round_number |-> n, tick |-> e.tick, victim_name |-> v,
   headshot |-> HeadshotOf(e), assister_name |-> e.assister_name,
   flash_assist |-> FlashAssistOf(e), event |-> e]

InsertAt(rows, pos, row) ==
  SubSeq(rows, 1, pos - 1) \o <<row>> \o SubSeq(rows, pos, Len(rows))

\* PlayerDeath of the demo of match m, adv ticks after the last event; the
\* row lands at position pos of the file
EtlKill(m, adv, pos, v, hitgroup, assister, assistedflash) ==
  /\ response.op = "none"
  /\ sqlResponse.op = "none"
  /\ Len(killsTable) < MaxKillRows
  /\ pos \in 1..(Len(killsTable) + 1)
  /\ LET e == DeathEvent(demo[m].tick + adv, hitgroup, assister, assistedflash)
     IN /\ killsTable' = InsertAt(killsTable, pos, KillRowOf(m, demo[m].round, v, e))
        /\ demo' = [demo EXCEPT ![m].tick = e.tick]
  /\ UNCHANGED <<storeVars, sqlResponse, baseVars>>

\* RoundEnd of the demo of match m: the next round begins
EtlRoundEnd(m) ==
  /\ response.op = "none"
  /\ sqlResponse.op = "none"
  /\ demo[m].round < MaxDemoRounds
  /\ demo' = [demo EXCEPT ![m].round = @ + 1]
  /\ UNCHANGED <<storeVars, killsTable, sqlResponse, baseVars>>

(***************************************************************************)
(* ETL: the Weapon aggregator that writes weapon_stats                     *)
(***************************************************************************)
weaponRest == <<matchesTable, roundsTable, killsTable, sqlResponse, demo, chatTable,
                coreVars>>

\* the counters of one player, one weapon and one match
NewWeaponRow(sid, w, m) ==
  [steam_id |-> sid, weapon |-> w, match_id |-> m,
   kills |-> 0, headshots |-> 0, damage |-> 0, shots |-> 0, hits |-> 0]

\* a shot is counted and, when it hits, a hit; a kill is counted and, when
\* the fatal hit was to the head, a headshot
CountWeaponEvent(row, kind) ==
  CASE kind = "shot_hit" -> [row EXCEPT !.shots = @ + 1, !.hits = @ + 1]
    [] kind = "shot_miss" -> [row EXCEPT !.shots = @ + 1]
    [] kind = "kill_head" -> [row EXCEPT !.kills = @ + 1, !.headshots = @ + 1]
    [] kind = "kill_body" -> [row EXCEPT !.kills = @ + 1]

WeaponRowIndex(table, sid, w, m) ==
  IF \E i \in 1..Len(table) :
       table[i].steam_id = sid /\ table[i].weapon = w /\ table[i].match_id = m
  THEN CHOOSE i \in 1..Len(table) :
         table[i].steam_id = sid /\ table[i].weapon = w /\ table[i].match_id = m
  ELSE 0

\* the events counted so far: every event is a shot or a kill
RECURSIVE WeaponEventCount(_, _)
WeaponEventCount(table, i) ==
  IF i = 0 THEN 0
  ELSE table[i].shots + table[i].kills + WeaponEventCount(table, i - 1)

EtlWeaponEvent(sid, w, m, kind) ==
  /\ response.op = "none"
  /\ WeaponEventCount(weaponTable, Len(weaponTable)) < MaxWeaponEvents
  /\ LET i == WeaponRowIndex(weaponTable, sid, w, m)
     IN weaponTable' =
          IF i = 0
          THEN Append(weaponTable, CountWeaponEvent(NewWeaponRow(sid, w, m), kind))
          ELSE [weaponTable EXCEPT ![i] = CountWeaponEvent(@, kind)]
  /\ UNCHANGED <<response, weaponRest>>

(***************************************************************************)
(* fileStore.getWeaponStatsBySteamId and PlayerService.getPlayerWeapons    *)
(***************************************************************************)
\* record.field || 0
OrZero(record, f) == IF f \in DOMAIN record THEN record[f] ELSE 0

\* a variant that counts the records instead of their kills
AccumulateWeapon_KillsPerRecord(agg, record) ==
  [agg EXCEPT !.total_kills = @ + 1,
              !.total_headshots = @ + OrZero(record, "headshots"),
              !.total_damage = @ + OrZero(record, "damage"),
              !.total_shots = @ + OrZero(record, "shots"),
              !.total_hits = @ + OrZero(record, "hits"),
              !.matches_used = @ + 1]

\* byWeapon[weapon].total_x += record.x || 0
AccumulateWeapon(agg, record) ==
  [agg EXCEPT !.total_kills = @ + OrZero(record, "kills"),
              !.total_headshots = @ + OrZero(record, "headshots"),
              !.total_damage = @ + OrZero(record, "damage"),
              !.total_shots = @ + OrZero(record, "shots"),
              !.total_hits = @ + OrZero(record, "hits"),
              !.matches_used = @ + 1]

NewWeaponAggregate(w) ==
  [weapon |-> w, total_kills |-> 0, total_headshots |-> 0, total_damage |-> 0,
   total_shots |-> 0, total_hits |-> 0, matches_used |-> 0]

AggregateIndex(aggs, w) ==
  IF \E i \in 1..Len(aggs) : aggs[i].weapon = w
  THEN CHOOSE i \in 1..Len(aggs) : aggs[i].weapon = w
  ELSE 0

\* the loop over the records; the values of byWeapon keep insertion order
RECURSIVE ByWeapon(_, _)
ByWeapon(records, n) ==
  IF n = 0 THEN <<>>
  ELSE LET aggs == ByWeapon(records, n - 1)
           i == AggregateIndex(aggs, records[n].weapon)
       IN IF i = 0
          THEN Append(aggs, AccumulateWeapon(NewWeaponAggregate(records[n].weapon),
                                             records[n]))
          ELSE [aggs EXCEPT ![i] = AccumulateWeapon(@, records[n])]

\* .sort((a, b) => b.total_kills - a.total_kills), a stable sort
RECURSIVE InsertByKills(_, _)
InsertByKills(sorted, agg) ==
  IF sorted = <<>> THEN <<agg>>
  ELSE IF agg.total_kills - sorted[Len(sorted)].total_kills <= 0
       THEN Append(sorted, agg)
       ELSE Append(InsertByKills(SubSeq(sorted, 1, Len(sorted) - 1), agg),
                   sorted[Len(sorted)])

RECURSIVE SortByKills(_, _)
SortByKills(aggs, i) ==
  IF i = 0 THEN <<>> ELSE InsertByKills(SortByKills(aggs, i - 1), aggs[i])

getWeaponStatsBySteamId(table, steamId) ==
  LET records == SelectSeq(table, LAMBDA r : r.steam_id = steamId)
      aggs == ByWeapon(records, Len(records))
  IN SortByKills(aggs, Len(aggs))

\* parseFloat(((n / d) * 100).toFixed(2)) in hundredths of a percent, 0 when
\* d is not positive
Percentage(n, d) == IF d > 0 THEN (2 * n * 10000 + d) \div (2 * d) ELSE 0

PlayerWeaponAggregate(row) ==
  [weapon |-> row.weapon,
   totalKills |-> row.total_kills,
   totalHeadshots |-> row.total_headshots,
   headshotPercentage |-> Percentage(row.total_headshots, row.total_kills),
   totalDamage |-> row.total_damage,
   totalShots |-> row.total_shots,
   totalHits |-> row.total_hits,
   accuracy |-> Percentage(row.total_hits, row.total_shots),
   matchesUsed |-> row.matches_used]

getPlayerWeapons(table, steamId) ==
  LET weaponRecords == getWeaponStatsBySteamId(table, steamId)
  IN [op |-> "getPlayerWeapons", steamId |-> steamId, status |-> "ok",
      body |-> [i \in 1..Len(weaponRecords) |-> PlayerWeaponAggregate(weaponRecords[i])]]

GetPlayerWeapons(steamId) ==
  /\ response.op = "none"
  /\ response' = getPlayerWeapons(weaponTable, steamId)
  /\ UNCHANGED <<weaponTable, weaponRest>>

(***************************************************************************)
(* fileStore.getChatMessagesByMatchId and getMatchSentimentData            *)
(***************************************************************************)
chatRest == <<matchesTable, roundsTable, killsTable, sqlResponse, demo, weaponTable,
              coreVars>>

\* a variant that drops a message equal to one already kept
ChatOfMatch_Distinct(table, matchId) ==
  LET mine == SelectSeq(table, LAMBDA r : r.match_id = matchId)
      F[i \in 0..Len(mine)] ==
        IF i = 0 THEN <<>>
        ELSE IF \E j \in 1..Len(F[i - 1]) : F[i - 1][j] = mine[i]
             THEN F[i - 1]
             ELSE Append(F[i - 1], mine[i])
  IN F[Len(mine)]

\* .filter((r) => r.match_id === matchId)
ChatOfMatch(table, matchId) == SelectSeq(table, LAMBDA r : r.match_id = matchId)

\* .sort((a, b) => a.tick - b.tick), a stable sort
RECURSIVE InsertByTick(_, _)
InsertByTick(sorted, row) ==
  IF sorted = <<>> THEN <<row>>
  ELSE IF sorted[Len(sorted)].tick - row.tick <= 0
       THEN Append(sorted, row)
       ELSE Append(InsertByTick(SubSeq(sorted, 1, Len(sorted) - 1), row),
                   sorted[Len(sorted)])

RECURSIVE SortByTick(_, _)
SortByTick(rows, i) ==
  IF i = 0 THEN <<>> ELSE InsertByTick(SortByTick(rows, i - 1), rows[i])

getChatMessagesByMatchId(table, matchId) ==
  LET mine == ChatOfMatch(table, matchId)
  IN SortByTick(mine, Len(mine))

ChatMessageOfRow(r) ==
  [matchId |-> r.match_id, tick |-> r.tick, steamId |-> r.steam_id,
   playerName |-> r.player_name, message |-> r.message]

\* the chat part of the answer; the voice files are mapped the same way
getMatchSentimentData(matches, table, matchId) ==
  IF matchId \notin matches
  THEN [op |-> "getMatchSentimentData", matchId |-> matchId,
        status |-> "NotFoundError", chatMessages |-> <<>>, chatMessageCount |-> 0]
  ELSE LET chatRecords == getChatMessagesByMatchId(table, matchId)
           chatMessages == [i \in 1..Len(chatRecords) |->
                              ChatMessageOfRow(chatRecords[i])]
       IN [op |-> "getMatchSentimentData", matchId |-> matchId, status |-> "ok",
           chatMessages |-> chatMessages,
           chatMessageCount |-> Len(chatMessages)]

\* a chat message event of the demo of match m: the ETL appends one row
StoreChatMessage(m, t, sid, text) ==
  /\ response.op = "none"
  /\ Len(chatTable) < MaxChatRows
  /\ chatTable' = Append(chatTable,
       [match_id |-> m, tick |-> t, steam_id |-> sid,
        player_name |-> "A", message |-> text])
  /\ UNCHANGED <<response, chatRest>>

GetMatchSentimentData(matchId) ==
  /\ response.op = "none"
  /\ response' = getMatchSentimentData(matchesTable, chatTable, matchId)
  /\ UNCHANGED <<chatTable, chatRest>>

(***************************************************************************)
(* Concurrent requests: every call of getFlashes has its own locals        *)
(* (flashEvents, leaderboard, the position of forEach) and reads the demo  *)
(* at the module constant filePath.                                        *)
(***************************************************************************)
\* everything the prototypes and the tables above own, but for the responses
settledVars == <<trackerVars, parsedVars, pc, flashVars, killVars, goProcVars, roundVars,
                 matchesTable, roundsTable, killsTable, demo, tableVars>>

instanceVars == <<demoFiles, task>>
boardVars == <<flashStats>>
careerVars == <<performanceHistory, streakLoop, milestones>>
pagingVars == <<entries, pager>>
controllerVars == <<request>>
detectionVars == <<script, execution, answer>>
shutdownVars == <<signals, httpServer, pool, exit>>

instanceRest == <<response, sqlResponse, boardVars, careerVars, pagingVars,
  controllerVars, detectionVars, shutdownVars>>

\* const filePath = "C:\\Users\\jules\\StatTrak\\demos\\nukeDemo.dem"
filePath == "nukeDemo.dem"

IdleTask == [pc |-> "idle", flashEvents |-> <<>>, leaderboard |-> EmptyMap, idx |-> 0]

\* a demo is recorded before any instance starts: one more player_blind
\* event (A blinds vic outside warmup) in the file at path
RecordBlind(path, vic) ==
  /\ \A i \in Instances : task[i].pc = "idle"
  /\ Len(demoFiles[path]) < MaxFileBlinds
  /\ demoFiles' = [demoFiles EXCEPT ![path] = Append(@,
       [attacker_name |-> "A", user_name |-> vic, blind_duration |-> 1,
        tick |-> Len(demoFiles[path]) + 1, is_warmup_period |-> FALSE,
        attacker_team_num |-> InitTeam["A"], user_team_num |-> InitTeam[vic]])]
  /\ UNCHANGED <<task, settledVars, instanceRest>>

\* instance i: let leaderboard = new Map(); const flashEvents = getFlashEvents()
TaskGetFlashEvents(i) ==
  /\ task[i].pc = "idle"
  /\ task' = [task EXCEPT ![i] =
       [pc |-> "forEach", flashEvents |-> getFlashEvents(demoFiles[filePath]),
        leaderboard |-> EmptyMap, idx |-> 0]]
  /\ UNCHANGED <<demoFiles, settledVars, instanceRest>>

\* instance i: one callback of flashEvents.forEach
TaskForEach(i) ==
  /\ task[i].pc = "forEach"
  /\ task[i].idx < Len(task[i].flashEvents)
  /\ task' = [task EXCEPT ![i].idx = @ + 1,
                          ![i].leaderboard =
                            FlashCallback(@, EmptyMap, task[i].flashEvents[task[i].idx + 1])]
  /\ UNCHANGED <<demoFiles, settledVars, instanceRest>>

\* instance i: return leaderboard
TaskReturn(i) ==
  /\ task[i].pc = "forEach"
  /\ task[i].idx = Len(task[i].flashEvents)
  /\ task' = [task EXCEPT ![i].pc = "returned"]
  /\ UNCHANGED <<demoFiles, settledVars, instanceRest>>

(***************************************************************************)
(* file-store.ts getTeamFlashLeaderboard and the file-backed FlashService  *)
(* (flash.service.ts). A row of flash_stats is one player's totals of one  *)
(* match; durations are in milliseconds.                                   *)
(***************************************************************************)
flashRest == <<settledVars, instanceVars, careerVars, pagingVars,
  controllerVars, detectionVars, shutdownVars>>

\* the blind duration of a row, per teammate flashed
TeamBlindMs == 1004

NewFlashAggregate(record) ==
  [steam_id |-> record.steam_id, name |-> record.name,
   total_teammates_flashed |-> 0, total_team_blind_duration |-> 0, match_count |-> 0]

\* a variant that keeps the name of the first record
AccumulateFlash_FirstName(agg, record) ==
  [agg EXCEPT !.total_teammates_flashed = @ + OrZero(record, "teammates_flashed"),
              !.total_team_blind_duration = @ + OrZero(record, "team_blind_duration"),
              !.match_count = @ + 1]

\* byPlayer[steamId].total_x += record.x || 0; match_count += 1; name = record.name
AccumulateFlash(agg, record) ==
  [agg EXCEPT !.total_teammates_flashed = @ + OrZero(record, "teammates_flashed"),
              !.total_team_blind_duration = @ + OrZero(record, "team_blind_duration"),
              !.match_count = @ + 1,
              !.name = record.name]

PlayerIndex(aggs, steamId) ==
  IF \E i \in 1..Len(aggs) : aggs[i].steam_id = steamId
  THEN CHOOSE i \in 1..Len(aggs) : aggs[i].steam_id = steamId
  ELSE 0

\* the loop over the records; Object.values(byPlayer) keeps insertion order
\* (a steam id is not an array index)
RECURSIVE ByPlayer(_, _)
ByPlayer(records, n) ==
  IF n = 0 THEN <<>>
  ELSE LET aggs == ByPlayer(records, n - 1)
           i == PlayerIndex(aggs, records[n].steam_id)
       IN IF i = 0
          THEN Append(aggs, AccumulateFlash(NewFlashAggregate(records[n]), records[n]))
          ELSE [aggs EXCEPT ![i] = AccumulateFlash(@, records[n])]

\* .sort((a, b) => b.total_teammates_flashed - a.total_teammates_flashed), stable
RECURSIVE InsertByFlashed(_, _)
InsertByFlashed(sorted, agg) ==
  IF sorted = <<>> THEN <<agg>>
  ELSE IF agg.total_teammates_flashed - sorted[Len(sorted)].total_teammates_flashed <= 0
       THEN Append(sorted, agg)
       ELSE Append(InsertByFlashed(SubSeq(sorted, 1, Len(sorted) - 1), agg),
                   sorted[Len(sorted)])

RECURSIVE SortByFlashed(_, _)
SortByFlashed(aggs, i) ==
  IF i = 0 THEN <<>> ELSE InsertByFlashed(SortByFlashed(aggs, i - 1), aggs[i])

fileStore_getTeamFlashLeaderboard(table) ==
  LET byPlayer == ByPlayer(table, Len(table))
      flashed == SelectSeq(byPlayer, LAMBDA p : p.total_teammates_flashed > 0)
  IN SortByFlashed(flashed, Len(flashed))

\* Array.prototype.slice(start, end) for 0 <= start <= end
Slice(s, start, end) ==
  LET lo == IF start < Len(s) THEN start ELSE Len(s)
      hi == IF end < Len(s) THEN end ELSE Len(s)
  IN SubSeq(s, lo + 1, hi)

\* Math.ceil(n / d) for n >= 0 and d > 0
Ceil(n, d) == (n + d - 1) \div d

\* parseFloat((n / d).toFixed(2)) in hundredths
Fixed2(n, d) == (2 * n * 100 + d) \div (2 * d)

\* parseFloat(x.toFixed(2)) of a duration: milliseconds rounded to hundredths
\* of a second
Fixed2Ms(ms) == ((ms + 5) \div 10) * 10

FlashLeaderboardEntry(row) ==
  [steamId |-> row.steam_id,
   name |-> row.name,
   totalTeammatesFlashed |-> row.total_teammates_flashed,
   totalTeamBlindDuration |-> Fixed2Ms(row.total_team_blind_duration),
   matchCount |-> row.match_count,
   avgTeamFlashesPerMatch |->
     IF row.match_count > 0
     THEN Fixed2(row.total_teammates_flashed, row.match_count)
     ELSE 0]

\* a variant that skips the first page
Offset_PageTimesLimit(pagination) == pagination.page * pagination.limit

\* const offset = (pagination.page - 1) * pagination.limit
Offset(pagination) == (pagination.page - 1) * pagination.limit

\* the file-backed FlashService.getTeamFlashLeaderboard as a function of what
\* fileStore.getTeamFlashLeaderboard returns
TeamFlashLeaderboardOf(allEntries, pagination) ==
  LET total == Len(allEntries)
      offset == Offset(pagination)
      paginatedEntries == Slice(allEntries, offset, offset + pagination.limit)
  IN [op |-> "getTeamFlashLeaderboard",
      status |-> "ok",
      items |-> [i \in 1..Len(paginatedEntries) |->
                   FlashLeaderboardEntry(paginatedEntries[i])],
      total |-> total,
      page |-> pagination.page,
      limit |-> pagination.limit,
      totalPages |-> Ceil(total, pagination.limit)]

getTeamFlashLeaderboard(table, pagination) ==
  TeamFlashLeaderboardOf(fileStore_getTeamFlashLeaderboard(table), pagination)

\* a row of flash_stats as the ETL has written it: one row per player and match
StoreFlashStat(m, sid, name, n) ==
  /\ response.op = "none"
  /\ sqlResponse.op = "none"
  /\ Len(flashStats) < MaxFlashRows
  /\ \A i \in 1..Len(flashStats) :
       ~(flashStats[i].match_id = m /\ flashStats[i].steam_id = sid)
  /\ flashStats' = Append(flashStats,
       [match_id |-> m, steam_id |-> sid, name |-> name,
        teammates_flashed |-> n, team_blind_duration |-> n * TeamBlindMs])
  /\ UNCHANGED <<response, sqlResponse, flashRest>>

GetTeamFlashLeaderboard(page, limit) ==
  /\ response.op = "none"
  /\ response' = getTeamFlashLeaderboard(flashStats, [page |-> page, limit |-> limit])
  /\ UNCHANGED <<flashStats, sqlResponse, flashRest>>

(***************************************************************************)
(* career.service.ts calculateMilestones: the streaks                      *)
(***************************************************************************)
careerRest == <<settledVars, response, sqlResponse, instanceVars, boardVars, pagingVars,
  controllerVars, detectionVars, shutdownVars>>

emptyMilestones ==
  [longestWinStreak |-> 0, longestLossStreak |-> 0,
   currentStreak |-> 0, currentStreakType |-> ""]

IdleStreakLoop ==
  [pc |-> "idle", i |-> 0, maxWinStreak |-> 0, maxLossStreak |-> 0,
   tempStreak |-> 0, tempType |-> ""]

Max(a, b) == IF a >= b THEN a ELSE b

\* a variant in which a result that is neither WIN nor LOSS leaves the run open
StreakStep_TieKeeps(st, result) ==
  IF result = "WIN"
  THEN LET t == IF st.tempType = "WIN" THEN st.tempStreak + 1 ELSE 1
       IN [st EXCEPT !.tempStreak = t, !.tempType = "WIN",
                     !.maxWinStreak = Max(st.maxWinStreak, t)]
  ELSE IF result = "LOSS"
       THEN LET t == IF st.tempType = "LOSS" THEN st.tempStreak + 1 ELSE 1
            IN [st EXCEPT !.tempStreak = t, !.tempType = "LOSS",
                          !.maxLossStreak = Max(st.maxLossStreak, t)]
       ELSE st

\* the body of for (const p of perf)
StreakStep(st, result) ==
  IF result = "WIN"
  THEN LET t == IF st.tempType = "WIN" THEN st.tempStreak + 1 ELSE 1
       IN [st EXCEPT !.tempStreak = t, !.tempType = "WIN",
                     !.maxWinStreak = Max(st.maxWinStreak, t)]
  ELSE IF result = "LOSS"
       THEN LET t == IF st.tempType = "LOSS" THEN st.tempStreak + 1 ELSE 1
            IN [st EXCEPT !.tempStreak = t, !.tempType = "LOSS",
                          !.maxLossStreak = Max(st.maxLossStreak, t)]
       ELSE [st EXCEPT !.tempStreak = 0, !.tempType = ""]

\* a variant that reports the length of the run without its sign
CurrentStreak_Unsigned(tempType, tempStreak) == tempStreak

\* tempType === "WIN" ? tempStreak : -tempStreak (-0 is 0 in the JSON answer)
CurrentStreak(tempType, tempStreak) == IF tempType = "WIN" THEN tempStreak ELSE -tempStreak

\* one more match of the player, later than those of the history
PlayMatch(result) ==
  /\ streakLoop.pc = "idle"
  /\ Len(performanceHistory) < MaxCareerMatches
  /\ performanceHistory' = Append(performanceHistory, result)
  /\ UNCHANGED <<streakLoop, milestones, careerRest>>

\* calculateMilestones up to the loop; an empty history returns emptyMilestones
MilestonesBegin ==
  /\ streakLoop.pc = "idle"
  /\ IF Len(performanceHistory) = 0
     THEN /\ streakLoop' = [IdleStreakLoop EXCEPT !.pc = "returned"]
          /\ milestones' = emptyMilestones
     ELSE /\ streakLoop' = [IdleStreakLoop EXCEPT !.pc = "loop"]
          /\ milestones' = emptyMilestones
  /\ UNCHANGED <<performanceHistory, careerRest>>

MilestonesLoop ==
  /\ streakLoop.pc = "loop"
  /\ streakLoop.i < Len(performanceHistory)
  /\ streakLoop' = [StreakStep(streakLoop, performanceHistory[streakLoop.i + 1])
                      EXCEPT !.i = streakLoop.i + 1]
  /\ UNCHANGED <<performanceHistory, milestones, careerRest>>

MilestonesReturn ==
  /\ streakLoop.pc = "loop"
  /\ streakLoop.i = Len(performanceHistory)
  /\ milestones' =
       [longestWinStreak |-> streakLoop.maxWinStreak,
        longestLossStreak |-> streakLoop.maxLossStreak,
        currentStreak |-> CurrentStreak(streakLoop.tempType, streakLoop.tempStreak),
        currentStreakType |-> streakLoop.tempType]
  /\ streakLoop' = [streakLoop EXCEPT !.pc = "returned"]
  /\ UNCHANGED <<performanceHistory, careerRest>>

(***************************************************************************)
(* The paginated services of the file store: MatchService.getMatches,      *)
(* PlayerService.getPlayerMatches and FlashService.getTeamFlashLeaderboard *)
(* slice the list the file store returns; a client walks the pages.        *)
(***************************************************************************)
pagingRest == <<settledVars, response, sqlResponse, instanceVars, boardVars, careerVars,
  controllerVars, detectionVars, shutdownVars>>

IdlePager == [service |-> "", limit |-> 0, pages |-> <<>>]

\* the k-th row of the list, with the columns the three services read
ListRow(k) ==
  [match_id |-> k, steam_id |-> k, name |-> "ann", total_teammates_flashed |-> 1,
   total_team_blind_duration |-> TeamBlindMs, match_count |-> 1]

\* the fields of MatchSummary that identify the match
MatchSummary(match) == [matchId |-> match.match_id]

\* the fields of PlayerMatchStats that identify the row
PlayerMatchStats(row) == [matchId |-> row.match_id, steamId |-> row.steam_id]

\* MatchService.getMatches as a function of what fileStore.getAllMatches returns
getMatches(allMatches, pagination) ==
  LET total == Len(allMatches)
      offset == Offset(pagination)
      paginatedMatches == Slice(allMatches, offset, offset + pagination.limit)
  IN [op |-> "getMatches",
      status |-> "ok",
      items |-> [i \in 1..Len(paginatedMatches) |-> MatchSummary(paginatedMatches[i])],
      total |-> total,
      page |-> pagination.page,
      limit |-> pagination.limit,
      totalPages |-> Ceil(total, pagination.limit)]

\* PlayerService.getPlayerMatches as a function of what
\* fileStore.getPlayerMatchesBySteamId returns
getPlayerMatches(allMatches, pagination) ==
  LET total == Len(allMatches)
      offset == Offset(pagination)
      paginatedMatches == Slice(allMatches, offset, offset + pagination.limit)
  IN IF total = 0
     THEN [op |-> "getPlayerMatches", status |-> "NotFoundError", items |-> <<>>,
           total |-> 0, page |-> pagination.page, limit |-> pagination.limit,
           totalPages |-> 0]
     ELSE [op |-> "getPlayerMatches",
           status |-> "ok",
           items |-> [i \in 1..Len(paginatedMatches) |->
                        PlayerMatchStats(paginatedMatches[i])],
           total |-> total,
           page |-> pagination.page,
           limit |-> pagination.limit,
           totalPages |-> Ceil(total, pagination.limit)]

PaginatedService(service, all, pagination) ==
  CASE service = "getMatches" -> getMatches(all, pagination)
    [] service = "getPlayerMatches" -> getPlayerMatches(all, pagination)
    [] service = "getTeamFlashLeaderboard" -> TeamFlashLeaderboardOf(all, pagination)

\* the item a service returns for a row of its list
ItemOf(service, row) ==
  CASE service = "getMatches" -> MatchSummary(row)
    [] service = "getPlayerMatches" -> PlayerMatchStats(row)
    [] service = "getTeamFlashLeaderboard" -> FlashLeaderboardEntry(row)

\* one more row of the list, stored before the client starts
StoreEntry(k) ==
  /\ pager.service = ""
  /\ Len(entries) < MaxEntries
  /\ \A i \in 1..Len(entries) : entries[i] # ListRow(k)
  /\ entries' = Append(entries, ListRow(k))
  /\ UNCHANGED <<pager, pagingRest>>

\* the client asks for page 1 of a service with a limit of its choice
FirstPage(service, limit) ==
  /\ pager.service = ""
  /\ pager' = [service |-> service, limit |-> limit,
               pages |-> <<PaginatedService(service, entries,
                                            [page |-> 1, limit |-> limit])>>]
  /\ UNCHANGED <<entries, pagingRest>>

\* the client asks for the next page, up to one page past the last
NextPage ==
  /\ pager.service # ""
  /\ pager.pages[Len(pager.pages)].status = "ok"
  /\ Len(pager.pages) <= pager.pages[1].totalPages
  /\ pager' = [pager EXCEPT !.pages = Append(@,
       PaginatedService(pager.service, entries,
                        [page |-> Len(pager.pages) + 1, limit |-> pager.limit]))]
  /\ UNCHANGED <<entries, pagingRest>>

(***************************************************************************)
(* The paginated controllers: page and limit of the query string           *)
(***************************************************************************)
controllerRest == <<settledVars, response, sqlResponse, instanceVars, boardVars,
                    careerVars, pagingVars, detectionVars, shutdownVars>>

NaN == [isNaN |-> TRUE, value |-> 0]

Number(n) == [isNaN |-> FALSE, value |-> n]

\* parseInt(req.query.x as string): the leading integer of the text, NaN
\* when there is none or the parameter is absent
ParseInt(q) ==
  CASE q = "absent" -> NaN
    [] q = "abc" -> NaN
    [] q = "0" -> Number(0)
    [] q = "-3" -> Number(-3)
    [] q = "5" -> Number(5)
    [] q = "7up" -> Number(7)
    [] q = "250" -> Number(250)

\* parseInt(q) || d: NaN and 0 are falsy
ParseIntOr(q, d) ==
  IF ParseInt(q).isNaN \/ ParseInt(q).value = 0 THEN d ELSE ParseInt(q).value

Min(a, b) == IF a <= b THEN a ELSE b

\* the controllers that test page < 1
ChecksPage(controller) ==
  controller \in {"MatchController.getMatches", "PlayerController.getPlayerMatches"}

\* a paginated controller up to the call of its service
PaginatedHandler(controller, pageQuery, limitQuery) ==
  LET page == ParseIntOr(pageQuery, 1)
      limit == Min(ParseIntOr(limitQuery, 20), 100)
  IN IF ChecksPage(controller) /\ page < 1
     THEN [outcome |-> "BadRequestError", controller |-> controller,
           query |-> [page |-> pageQuery, limit |-> limitQuery],
           page |-> page, limit |-> limit]
     ELSE [outcome |-> "service", controller |-> controller,
           query |-> [page |-> pageQuery, limit |-> limitQuery],
           page |-> page, limit |-> limit]

HandleRequest(controller, pageQuery, limitQuery) ==
  /\ request.outcome = "none"
  /\ request' = PaginatedHandler(controller, pageQuery, limitQuery)
  /\ UNCHANGED controllerRest

(***************************************************************************)
(* match-detection.service.ts: executePythonScript and the three methods   *)
(* that await it                                                           *)
(***************************************************************************)
detectionRest == <<settledVars, response, sqlResponse, instanceVars, boardVars,
                   careerVars, pagingVars, controllerVars, shutdownVars>>

IdleScript == [method |-> "", state |-> "idle", stdout |-> <<>>, code |-> 0]

PendingExecution == [state |-> "pending", settled |-> 0, result |-> [state |-> "pending"]]

\* the value JSON.parse returns for the text null
JsonNull == [null |-> TRUE]

\* stdout += data.toString()
AppendChunk(out, data) == Append(out, data)

\* JSON.parse(stdout): the text {} (in one or two chunks of data) is the
\* object of the script's answer, null is null, every other text throws
JsonParse(out) ==
  IF out = <<"{", "}">>
  THEN [ok |-> TRUE, value |-> [demo_path |-> "demos/match.dem"]]
  ELSE IF out = <<"null">>
       THEN [ok |-> TRUE, value |-> JsonNull]
       ELSE [ok |-> FALSE, value |-> [error |-> "SyntaxError"]]

\* python.on('close', (code) => ...): how the promise settles
OnClose(code, out) ==
  IF code # 0
  THEN [state |-> "rejected", error |-> "Python script failed"]
  ELSE IF JsonParse(out).ok
       THEN [state |-> "resolved", value |-> JsonParse(out).value]
       ELSE [state |-> "rejected", error |-> "Failed to parse Python output"]

\* a variant that lets the error of the script through
downloadMatch_Rethrow(exec) ==
  IF exec.state = "rejected"
  THEN [state |-> "rejected", error |-> "Failed to download match"]
  ELSE IF exec.value = JsonNull
       THEN [state |-> "rejected", error |-> "TypeError"]
       ELSE [state |-> "resolved", success |-> TRUE, demo_path |-> exec.value.demo_path]

\* downloadMatch after the await: result.demo_path of null throws inside the
\* try, the catch returns the failure
downloadMatch(exec) ==
  IF exec.state = "rejected" \/ exec.value = JsonNull
  THEN [state |-> "resolved", success |-> FALSE, error |-> "Failed to download match"]
  ELSE [state |-> "resolved", success |-> TRUE, demo_path |-> exec.value.demo_path]

\* pollAllSources after the await
pollAllSources(exec) ==
  IF exec.state = "rejected"
  THEN [state |-> "rejected", error |-> "Failed to poll sources"]
  ELSE [state |-> "resolved", success |-> TRUE, matches |-> exec.value]

\* getSourceSummary after the await
getSourceSummary(exec) ==
  IF exec.state = "rejected"
  THEN [state |-> "rejected", error |-> "Failed to get source summary"]
  ELSE [state |-> "resolved", summary |-> exec.value]

\* a method of the service is called and spawns the script
SpawnScript(method) ==
  /\ script.state = "idle"
  /\ script' = [IdleScript EXCEPT !.method = method, !.state = "running"]
  /\ UNCHANGED <<execution, answer, detectionRest>>

\* python.stdout.on('data', ...)
StdoutData(data) ==
  /\ script.state = "running"
  /\ Len(script.stdout) < MaxChunks
  /\ script' = [script EXCEPT !.stdout = AppendChunk(@, data)]
  /\ UNCHANGED <<execution, answer, detectionRest>>

\* python.on('close', ...)
ScriptClose(code) ==
  /\ script.state = "running"
  /\ script' = [script EXCEPT !.state = "closed", !.code = code]
  /\ execution' = [state |-> OnClose(code, script.stdout).state,
                   settled |-> execution.settled + 1,
                   result |-> OnClose(code, script.stdout)]
  /\ UNCHANGED <<answer, detectionRest>>

\* the method resumes after await this.executePythonScript(args)
MethodResume ==
  /\ execution.state # "pending"
  /\ answer.state = "pending"
  /\ answer' = CASE script.method = "downloadMatch" -> downloadMatch(execution.result)
                 [] script.method = "pollAllSources" -> pollAllSources(execution.result)
                 [] script.method = "getSourceSummary" -> getSourceSummary(execution.result)
  /\ UNCHANGED <<script, execution, detectionRest>>

(***************************************************************************)
(* server.ts shutdown and pool.ts closePool. httpServer.close(callback)    *)
(* keeps every callback for the 'close' event; a call on a server that has *)
(* closed already has the event emitted again. pool.end() on a pool that   *)
(* is ending or has ended is answered by the library with an error or      *)
(* ignored.                                                                *)
(***************************************************************************)
shutdownRest == <<settledVars, response, sqlResponse, instanceVars, boardVars,
                  careerVars, pagingVars, controllerVars, detectionVars>>

\* process.on("SIGTERM", shutdown) / process.on("SIGINT", shutdown):
\* shutdown calls httpServer.close(async () => ...)
Shutdown(signal) ==
  /\ ~exit.done
  /\ Len(signals) < MaxSignals
  /\ signals' = Append(signals, signal)
  /\ httpServer' =
       IF httpServer.state = "closed"
       THEN [httpServer EXCEPT !.runnable = @ + 1]
       ELSE [httpServer EXCEPT !.state = "closing", !.registered = @ + 1]
  /\ UNCHANGED <<pool, exit, shutdownRest>>

\* the last connection has ended: the server emits 'close'
ServerClosed ==
  /\ ~exit.done
  /\ httpServer.state = "closing"
  /\ httpServer' = [state |-> "closed", registered |-> 0,
                    runnable |-> httpServer.runnable + httpServer.registered]
  /\ UNCHANGED <<signals, pool, exit, shutdownRest>>

\* a close callback runs up to await closePool(): pool.end() is called
CloseCallback ==
  /\ ~exit.done
  /\ httpServer.runnable > 0
  /\ httpServer' = [httpServer EXCEPT !.runnable = @ - 1]
  /\ \/ /\ pool.state = "open"
        /\ pool' = [pool EXCEPT !.state = "ending", !.endCalls = @ + 1,
                                !.awaiting = @ + 1]
     \/ /\ pool.state # "open"
        /\ \/ pool' = [pool EXCEPT !.endCalls = @ + 1, !.rejected = @ + 1]
           \/ pool' = [pool EXCEPT !.endCalls = @ + 1, !.awaiting = @ + 1]
  /\ UNCHANGED <<signals, exit, shutdownRest>>

\* the pool has closed its clients: the promises of pool.end() resolve
PoolEnded ==
  /\ ~exit.done
  /\ pool.state = "ending"
  /\ pool' = [pool EXCEPT !.state = "ended"]
  /\ UNCHANGED <<signals, httpServer, exit, shutdownRest>>

\* a callback resumes after await closePool(): process.exit(0)
ExitAfterClose ==
  /\ ~exit.done
  /\ pool.state = "ended"
  /\ pool.awaiting > 0
  /\ exit' = [done |-> TRUE, code |-> 0]
  /\ UNCHANGED <<signals, httpServer, pool, shutdownRest>>

\* the rejection of pool.end() leaves the async callback unhandled: the
\* process ends with code 1
UnhandledRejection ==
  /\ ~exit.done
  /\ pool.rejected > 0
  /\ exit' = [done |-> TRUE, code |-> 1]
  /\ UNCHANGED <<signals, httpServer, pool, shutdownRest>>

(***************************************************************************)
(* The SQL-backed FlashService.getTeamFlashLeaderboard                     *)
(***************************************************************************)
\* the positions of the rows of one group of GROUP BY fs.steam_id, fs.name
GroupRows(table, g) ==
  {i \in 1..Len(table) : table[i].steam_id = g.steam_id /\ table[i].name = g.name}

RECURSIVE SumColumn(_, _, _)
SumColumn(table, rows, column) ==
  IF rows = {} THEN 0
  ELSE LET i == CHOOSE x \in rows : TRUE
       IN table[i][column] + SumColumn(table, rows \ {i}, column)

\* the row of the result for one group: SUM, SUM and COUNT(DISTINCT match_id)
GroupRow(table, g) ==
  LET rows == GroupRows(table, g)
  IN [steamId |-> g.steam_id,
      name |-> g.name,
      totalTeammatesFlashed |-> SumColumn(table, rows, "teammates_flashed"),
      totalTeamBlindDuration |-> SumColumn(table, rows, "team_blind_duration"),
      matchCount |-> Cardinality({table[i].match_id : i \in rows})]

\* GROUP BY fs.steam_id, fs.name HAVING SUM(fs.teammates_flashed) > 0
SqlGroups(table) ==
  {g \in {[steam_id |-> table[i].steam_id, name |-> table[i].name] : i \in 1..Len(table)} :
     SumColumn(table, GroupRows(table, g), "teammates_flashed") > 0}

\* ORDER BY "totalTeammatesFlashed" DESC: every order of the groups that
\* descends in the sum; the order of groups with equal sums is the database's
SqlBoardOrders(table) ==
  LET G == SqlGroups(table)
      n == Cardinality(G)
  IN {o \in [1..n -> G] :
        /\ \A i, j \in 1..n : i # j => o[i] # o[j]
        /\ \A i \in 1..(n - 1) :
             GroupRow(table, o[i]).totalTeammatesFlashed
               >= GroupRow(table, o[i + 1]).totalTeammatesFlashed}

\* LIMIT $1 OFFSET $2 of the ordered result
LimitOffset(rows, limit, offset) == Slice(rows, offset, offset + limit)

\* result.rows.map: the duration is parsed as it is, without rounding
SqlFlashLeaderboardEntry(row) ==
  [steamId |-> row.steamId,
   name |-> row.name,
   totalTeammatesFlashed |-> row.totalTeammatesFlashed,
   totalTeamBlindDuration |-> row.totalTeamBlindDuration,
   matchCount |-> row.matchCount,
   avgTeamFlashesPerMatch |->
     IF row.matchCount > 0
     THEN Fixed2(row.totalTeammatesFlashed, row.matchCount)
     ELSE 0]

\* the SQL-backed FlashService.getTeamFlashLeaderboard; o is the order in
\* which the database returns the groups
getTeamFlashLeaderboardSql(table, pagination, o) ==
  LET offset == Offset(pagination)
      \* SELECT COUNT(DISTINCT steam_id) FROM stats.flash_stats
      total == Cardinality({table[i].steam_id : i \in 1..Len(table)})
      rows == LimitOffset([i \in 1..Len(o) |-> GroupRow(table, o[i])],
                          pagination.limit, offset)
  IN [op |-> "getTeamFlashLeaderboard",
      status |-> "ok",
      items |-> [i \in 1..Len(rows) |-> SqlFlashLeaderboardEntry(rows[i])],
      total |-> total,
      page |-> pagination.page,
      limit |-> pagination.limit,
      totalPages |-> Ceil(total, pagination.limit)]

GetTeamFlashLeaderboardSql(page, limit) ==
  /\ sqlResponse.op = "none"
  /\ \E o \in SqlBoardOrders(flashStats) :
       sqlResponse' = getTeamFlashLeaderboardSql(flashStats,
                                                 [page |-> page, limit |-> limit], o)
  /\ UNCHANGED <<flashStats, response, flashRest>>

Init ==
  /\ team = InitTeam
  /\ isWarmup = TRUE
  /\ swapped = FALSE
  /\ tick = 0
  /\ teamAt = <<>>
  /\ blinds = <<>>
  /\ grenades = <<>>
  /\ pc = "stream"
  /\ flashEvents = <<>>
  /\ flashesByPlayer = EmptyMap
  /\ leaderboard = EmptyMap
  /\ idx = 0
  /\ roundsPlayed = 0
  /\ deaths = <<>>
  /\ validKills = <<>>
  /\ latestRoundWithKill = -1
  /\ round = 0
  /\ killsPerPlayer = EmptyMap
  /\ goPc = "start"
  /\ frame = 0
  /\ series = <<>>
  /\ stdout = <<>>
  /\ failed = FALSE
  /\ matchesTable = {}
  /\ roundsTable = <<>>
  /\ response = [op |-> "none"]
  /\ ctScore = 0
  /\ tScore = 0
  /\ roundEnds = <<>>
  /\ roundRecords = <<>>
  /\ aggState = "Streaming"
  /\ killsTable = <<>>
  /\ sqlResponse = [op |-> "none"]
  /\ demo = [m \in MatchIds |-> [tick |-> 0, round |-> 1]]
  /\ teamEvents = JoinEvents
  /\ order = <<>>
  /\ playerRecords = <<>>
  /\ previous = <<>>
  /\ weaponTable = <<>>
  /\ chatTable = <<>>
  /\ demoFiles = [f \in DemoPaths |-> <<>>]
  /\ task = [i \in Instances |-> IdleTask]
  /\ flashStats = <<>>
  /\ performanceHistory = <<>>
  /\ streakLoop = IdleStreakLoop
  /\ milestones = emptyMilestones
  /\ entries = <<>>
  /\ pager = IdlePager
  /\ request = [outcome |-> "none"]
  /\ script = IdleScript
  /\ execution = PendingExecution
  /\ answer = [state |-> "pending"]
  /\ signals = <<>>
  /\ httpServer = [state |-> "listening", registered |-> 0, runnable |-> 0]
  /\ pool = [state |-> "open", endCalls |-> 0, awaiting |-> 0, rejected |-> 0]
  /\ exit = [done |-> FALSE, code |-> 0]

Next ==
  \/ \E att \in Throwers, vic \in Players, dur \in Durations : PlayerBlind(att, vic, dur)
  \/ \E type \in GrenadeTypes, id \in EntityIds, name \in Throwers :
       GrenadeRecord(MaxThrows, type, id, name)
  \/ WarmupEnd
  \/ \E S \in SideChanges : TeamAssign(S)
  \/ GetFlashesBegin
  \/ GetFlashesEach
  \/ GetFlashesReturn

Spec == Init /\ [][Next]_vars

\* The grenade list alone, with up to MaxGrenades records
NextThrown ==
  \/ \E type \in GrenadeTypes, id \in EntityIds, name \in Throwers :
       GrenadeRecord(MaxGrenades, type, id, name)
  \/ WarmupEnd
  \/ GetThrown

SpecThrown == Init /\ [][NextThrown]_vars

\* Blinds and deaths of a match with side changes, no grenade list
NextTeams ==
  \/ \E vic \in Players : PlayerBlind("A", vic, 1)
  \/ \E vic \in Victims : PlayerDeath("A", vic)
  \/ WarmupEnd
  \/ RoundPlayed
  \/ \E S \in SideChanges : TeamAssign(S)
  \/ GetFlashesBegin
  \/ GetFlashesEach
  \/ GetFlashesReturn
  \/ KillsPerRoundBegin
  \/ KillsPerRoundLoop
  \/ KillsPerRoundReturn

SpecTeams == Init /\ [][NextTeams]_vars

\* One run of the Go extraction over one demo file
NextPipeline ==
  \/ \E err \in BOOLEAN : GoOpen(err)
  \/ \E err \in BOOLEAN : GoParseHeader(err)
  \/ GoFirstFrame
  \/ GoFrame
  \/ \E att \in Throwers, vic \in Players, dur \in Durations :
       GoFrameFlashed(att, vic, dur)
  \/ GoFrameError
  \/ GoEndOfDemo
  \/ GoPrint

SpecPipeline == Init /\ [][NextPipeline]_vars

\* The stored tables and the match service
NextRounds ==
  \/ \E m \in MatchIds : StoreMatch(m)
  \/ \E m \in MatchIds, n \in RoundNumbers, w \in Sides, r \in StoredReasons :
       StoreRound(m, n, w, r)
  \/ \E m \in MatchIds : GetMatchRounds(m)

SpecRounds == Init /\ [][NextRounds]_vars

\* The RoundEnd events of one demo
NextRoundEnds ==
  \/ WarmupEnd
  \/ \E input \in RoundEndInputs : RoundEnd(input[1], input[2])

SpecRoundEnds == Init /\ [][NextRoundEnds]_vars

\* The kills table and the two match services
NextKillStore ==
  \/ \E m \in MatchIds : StoreMatch(m)
  \/ \E m \in MatchIds, n \in RoundNumbers, t \in KillTicks, v \in Victims :
       StoreKill(m, n, t, v)
  \/ \E m \in MatchIds : GetMatchKills(m)
  \/ \E m \in MatchIds : GetMatchKillsSql(m)

SpecKillStore == Init /\ [][NextKillStore]_vars

\* The demos of the matches written by the ETL, then read by the service
NextKillsEtl ==
  \/ \E m \in MatchIds : StoreMatch(m)
  \/ \E m \in MatchIds, adv \in {0, 1}, pos \in 1..MaxKillRows :
       EtlKill(m, adv, pos, "C", "chest", "", FALSE)
  \/ \E m \in MatchIds : EtlRoundEnd(m)
  \/ \E m \in MatchIds : GetMatchKills(m)

SpecKillsEtl == Init /\ [][NextKillsEtl]_vars

\* The circumstance flags of the deaths of one demo
NextKillFlags ==
  \/ \E m \in MatchIds : StoreMatch(m)
  \/ \E h \in Hitgroups, a \in Assisters, af \in BOOLEAN :
       EtlKill("m1", 1, Len(killsTable) + 1, "C", h, a, af)
  \/ \E m \in MatchIds : GetMatchKills(m)

SpecKillFlags == Init /\ [][NextKillFlags]_vars

\* The leaderboard request, served twice over one demo
NextLeaderBoard ==
  \/ \E att \in Throwers, vic \in Players, dur \in Durations : PlayerBlind(att, vic, dur)
  \/ WarmupEnd
  \/ \E S \in SideChanges : TeamAssign(S)
  \/ GetFlashesBegin
  \/ GetFlashesEach
  \/ GetFlashesReturn
  \/ GetLeaderBoard
  \/ GetLeaderBoardAgain

SpecLeaderBoard == Init /\ [][NextLeaderBoard]_vars

\* The weapon counters of the demos, then the player's weapon page
NextWeapons ==
  \/ \E sid \in SteamIds, w \in Weapons, m \in MatchIds, kind \in WeaponEvents :
       EtlWeaponEvent(sid, w, m, kind)
  \/ \E sid \in SteamIds : GetPlayerWeapons(sid)

SpecWeapons == Init /\ [][NextWeapons]_vars

\* The chat log of the matches, then the sentiment data of a match
NextChat ==
  \/ \E m \in MatchIds : StoreMatch(m)
  \/ \E m \in MatchIds, t \in KillTicks, text \in ChatTexts :
       StoreChatMessage(m, t, "7656A", text)
  \/ \E m \in MatchIds : GetMatchSentimentData(m)

SpecChat == Init /\ [][NextChat]_vars

\* two instances of getFlashes served concurrently
NextInstances ==
  \/ \E path \in DemoPaths, vic \in Victims : RecordBlind(path, vic)
  \/ \E i \in Instances : TaskGetFlashEvents(i)
  \/ \E i \in Instances : TaskForEach(i)
  \/ \E i \in Instances : TaskReturn(i)

SpecInstances == Init /\ [][NextInstances]_vars

\* player_death events of a match with rounds and side changes, then killsPerRound
NextKills ==
  \/ \E att \in Throwers, vic \in Players : PlayerDeathUpTo(MaxKills, att, vic)
  \/ WarmupEnd \/ RoundPlayed \/ \E S \in SideChanges : TeamAssign(S)
  \/ KillsPerRoundBegin \/ KillsPerRoundLoop \/ KillsPerRoundReturn

SpecKills == Init /\ [][NextKills]_vars

\* the flash_stats table and the team flash leaderboard of the file store
NextFlashBoard ==
  \/ \E m \in MatchIds, sid \in SteamIds, name \in Names, n \in TeammatesFlashed :
       StoreFlashStat(m, sid, name, n)
  \/ \E page \in Pages, limit \in Limits : GetTeamFlashLeaderboard(page, limit)

SpecFlashBoard == Init /\ [][NextFlashBoard]_vars

\* a career of matches, then calculateMilestones
NextCareer ==
  \/ \E result \in Results : PlayMatch(result)
  \/ MilestonesBegin \/ MilestonesLoop \/ MilestonesReturn

SpecCareer == Init /\ [][NextCareer]_vars

\* a list of entries and a client that walks the pages of a service
NextPaging ==
  \/ \E k \in 1..MaxEntries : StoreEntry(k)
  \/ \E service \in PaginatedServices, limit \in Limits : FirstPage(service, limit)
  \/ NextPage

SpecPaging == Init /\ [][NextPaging]_vars

\* one request to a paginated controller
NextControllers ==
  \E controller \in PaginatedControllers, pageQuery \in QueryValues,
     limitQuery \in QueryValues :
    HandleRequest(controller, pageQuery, limitQuery)

SpecControllers == Init /\ [][NextControllers]_vars

\* one run of the detection script under one method of the service
NextDetection ==
  \/ \E method \in DetectionMethods : SpawnScript(method)
  \/ \E data \in Chunks : StdoutData(data)
  \/ \E code \in ExitCodes : ScriptClose(code)
  \/ MethodResume

SpecDetection == Init /\ [][NextDetection]_vars

\* signals and the callbacks of the shutdown
NextShutdown ==
  \/ \E signal \in Signals : Shutdown(signal)
  \/ ServerClosed \/ CloseCallback \/ PoolEnded \/ ExitAfterClose \/ UnhandledRejection

SpecShutdown == Init /\ [][NextShutdown]_vars

\* the flash_stats table under both implementations of FlashService, asked
\* for pages of one entry
NextFlashBoards ==
  \/ \E m \in MatchIds, sid \in SteamIds, name \in Names, n \in TeammatesFlashed :
       StoreFlashStat(m, sid, name, n)
  \/ \E page \in Pages : GetTeamFlashLeaderboard(page, 1)
  \/ \E page \in Pages : GetTeamFlashLeaderboardSql(page, 1)

SpecFlashBoards == Init /\ [][NextFlashBoards]_vars

(***************************************************************************)
(* Helpers of the properties                                               *)
(***************************************************************************)
RECURSIVE SumStat(_, _, _)
SumStat(lb, ks, f) ==
  IF ks = {} THEN 0
  ELSE LET k == CHOOSE x \in ks : TRUE
       IN lb[k][f] + SumStat(lb, ks \ {k}, f)

TotalStat(lb, f) == SumStat(lb, DOMAIN lb, f)

\* the forEach of getFlashes visits flashEvents[idx + 1] in this step
FoldStep == pc = "forEach" /\ idx' = idx + 1

SameTeamAt(t, a, b) == teamAt[t][a] = teamAt[t][b]

LiveBlinds == SelectSeq(blinds, LAMBDA e : ~e.is_warmup_period)
LiveGrenades == SelectSeq(grenades, LAMBDA g : ~g.warmup)
LiveDeaths == SelectSeq(deaths, LAMBDA d : ~d.is_warmup_period)

\* the deaths outside warmup in which p killed a player of the other team,
\* by the teams at the tick of the death
EnemyKillsAtTick(p) ==
  {i \in 1..Len(deaths) :
     /\ ~deaths[i].is_warmup_period
     /\ deaths[i].attacker_name = p
     /\ ~SameTeamAt(deaths[i].tick, p, deaths[i].user_name)}

\* C1: every non-warmup player_blind event folded by the flash aggregator
\* increments exactly one bucket by exactly 1: the self bucket (and neither
\* team_flashes nor clean_flashes) when attacker and victim are the same
\* player, team_flashes (teammatesFlashed) when they are different players of
\* one team, clean_flashes (enemiesFlashed) when they are on opposite teams.
C1_ExactlyOneBucket ==
  [][FoldStep =>
      LET e == flashEvents[idx + 1]
          dTeam == TotalStat(leaderboard', "team_flashes")
                     - TotalStat(leaderboard, "team_flashes")
          dClean == TotalStat(leaderboard', "clean_flashes")
                     - TotalStat(leaderboard, "clean_flashes")
      IN IF e.attacker_name = e.user_name
         THEN dTeam = 0 /\ dClean = 0
         ELSE IF e.attacker_team_num = e.user_team_num
              THEN dTeam = 1 /\ dClean = 0
              ELSE dTeam = 0 /\ dClean = 1]_vars

\* C2: when A throws one flashbang (one entity id) that blinds teammate B and
\* enemy C outside warmup, A's statistics are teammatesFlashed = 1,
\* enemiesFlashed = 1 and flashesThrown = 1.
ScenarioOneFlashbang ==
  /\ Len(grenades) >= 1
  /\ \A i \in 1..Len(grenades) :
       /\ grenades[i].grenade_type = "flashbang"
       /\ grenades[i].name = "A"
       /\ grenades[i].entity_id = grenades[1].entity_id
       /\ ~grenades[i].warmup
  /\ Len(blinds) = 2
  /\ \E i, j \in 1..2 :
       /\ i # j
       /\ blinds[i].attacker_name = "A" /\ blinds[i].user_name = "B"
       /\ blinds[i].attacker_team_num = blinds[i].user_team_num
       /\ ~blinds[i].is_warmup_period
       /\ blinds[j].attacker_name = "A" /\ blinds[j].user_name = "C"
       /\ blinds[j].attacker_team_num # blinds[j].user_team_num
       /\ ~blinds[j].is_warmup_period

C2_ThrowerScenario ==
  (pc = "returned" /\ ScenarioOneFlashbang) =>
     /\ StatOf(leaderboard, "A", "team_flashes") = 1
     /\ StatOf(leaderboard, "A", "clean_flashes") = 1
     /\ StatOf(leaderboard, "A", "flashes_thrown") = 1

\* C3: a player's flashes-thrown count is the number of distinct entity ids
\* among that player's flashbang records.
PlayerFlashbangIds(p) ==
  {grenades[i].entity_id :
     i \in {j \in 1..Len(grenades) :
              grenades[j].grenade_type = "flashbang" /\ grenades[j].name = p}}

C3_ThrownIsDistinctIds ==
  pc = "thrown" =>
    \A p \in Players :
      MapGetOr(flashesByPlayer, p, 0) = Cardinality(PlayerFlashbangIds(p))

\* C3 (amended): a player's flashes-thrown count is the number of distinct
\* entity ids whose first flashbang record in the list names that player;
\* records sharing an id count once, other grenade types count zero.
FirstFlashbangIds(p) ==
  {id \in EntityIds :
     \E i \in 1..Len(grenades) :
       /\ grenades[i].grenade_type = "flashbang"
       /\ grenades[i].entity_id = id
       /\ grenades[i].name = p
       /\ \A j \in 1..(i - 1) :
            grenades[j].grenade_type = "flashbang" => grenades[j].entity_id # id}

C3_ThrownIsFirstRecordIds ==
  pc = "thrown" =>
    \A p \in Players :
      MapGetOr(flashesByPlayer, p, 0) = Cardinality(FirstFlashbangIds(p))

\* three records: two flashbang records of one entity, and a smoke
C3_Witness ==
  /\ pc = "thrown"
  /\ Len(grenades) = 3
  /\ \E i, j, k \in 1..3 :
       /\ i # j
       /\ grenades[i].grenade_type = "flashbang"
       /\ grenades[j].grenade_type = "flashbang"
       /\ grenades[i].entity_id = grenades[j].entity_id
       /\ grenades[i].name = grenades[j].name
       /\ grenades[k].grenade_type = "smoke"
       /\ MapGetOr(flashesByPlayer, grenades[i].name, 0) = 1

\* C4: in every player record the flash buckets sum to at most the number of
\* non-warmup blind events folded into that record, and so does total_flashes.
FoldedInto(k) == Cardinality({i \in 1..idx : flashEvents[i].user_name = k})

C4_BucketsAtMostEvents ==
  \A k \in DOMAIN leaderboard :
    /\ leaderboard[k].team_flashes + leaderboard[k].clean_flashes <= FoldedInto(k)
    /\ leaderboard[k].total_flashes <= FoldedInto(k)

\* C5: no warmup event contributes to a statistic: the blind counts and
\* durations, the flashes-thrown counts and the kill counts are those of the
\* input without its warmup events (blinds, grenade throws, deaths).
C5_WarmupExcluded ==
  /\ pc \in {"returned", "thrown"} =>
       flashesByPlayer = getFlashesThrownByPlayer(LiveGrenades)
  /\ pc = "returned" =>
       leaderboard = getFlashes(LiveBlinds, LiveGrenades)
  /\ pc = "killsReturned" =>
       killsPerPlayer = killsPerRound(LiveDeaths)

\* C6: a flash or a kill is classified by the two players' teams at the tick
\* of the event: the team bucket grows exactly when attacker and victim were
\* on the same team at that tick, the enemy bucket exactly when they were not,
\* a kill counts exactly when the two were on different teams at its tick, and
\* the teams recorded for an event never change afterwards.
C6_TeamAtEventTick ==
  /\ [](pc = "killsReturned" =>
         \A p \in Players :
           MapGetOr(killsPerPlayer, p, 0) = Cardinality(EnemyKillsAtTick(p)))
  /\ [][\A i \in 1..Len(deaths) :
          /\ Len(deaths') >= i
          /\ deaths'[i] = deaths[i]]_vars
  /\ [][FoldStep =>
         LET e == flashEvents[idx + 1]
             same == SameTeamAt(e.tick, e.attacker_name, e.user_name)
             dTeam == TotalStat(leaderboard', "team_flashes")
                        - TotalStat(leaderboard, "team_flashes")
             dClean == TotalStat(leaderboard', "clean_flashes")
                        - TotalStat(leaderboard, "clean_flashes")
         IN /\ (dTeam > 0) <=> same
            /\ (dClean > 0) <=> ~same]_vars
  /\ [][\A i \in 1..Len(blinds) :
          /\ Len(blinds') >= i
          /\ blinds'[i] = blinds[i]]_vars

\* the same pair blinded before and after a side change, classified differently
C6_Witness ==
  /\ pc = "returned"
  /\ swapped
  /\ \E i, j \in 1..Len(flashEvents) :
       /\ i < j
       /\ flashEvents[i].attacker_name = flashEvents[j].attacker_name
       /\ flashEvents[i].user_name = flashEvents[j].user_name
       /\ IsTeamFlash(flashEvents[i]) # IsTeamFlash(flashEvents[j])
       /\ teamAt[flashEvents[i].tick] # team
       /\ teamAt[flashEvents[j].tick] = team

DfPrinted == \E i \in 1..Len(stdout) : stdout[i].line = "df"

\* C7: a run only moves forward along Uninitialized, HeaderRead, Streaming,
\* Finalized, or from a state before the end into Aborted on a fatal error;
\* rows are added by the handlers only while Streaming; Finalized and Aborted
\* are never left; the data frame is printed only from Finalized, never after
\* a fatal error.
C7_PipelineOrder ==
  /\ [][LET a == PipelineState(goPc)
            b == PipelineState(goPc')
        IN /\ \/ a = b
              \/ <<a, b>> \in {<<"Uninitialized", "HeaderRead">>,
                               <<"HeaderRead", "Streaming">>,
                               <<"Streaming", "Finalized">>}
              \/ b = "Aborted" /\ a \notin {"Finalized", "Aborted"}
           /\ a \in {"Finalized", "Aborted"} => b = a
           /\ Len(series') > Len(series) => a = "Streaming" /\ b = "Streaming"
           /\ (DfPrinted' /\ ~DfPrinted) => a = "Finalized"]_vars
  /\ [](DfPrinted => PipelineState(goPc) = "Finalized" /\ ~failed)
  /\ [](failed => PipelineState(goPc) = "Aborted")

\* a run that streamed a team flash and printed the data frame
C7_Witness ==
  /\ goPc = "printed"
  /\ Len(series) >= 1
  /\ frame >= 2

\* C8: after a fatal reader or decoder error the run is Aborted, the rows
\* aggregated so far are discarded and nothing derived from the demo has been
\* printed or persisted.
C8_AbortEmitsNothing ==
  failed =>
    /\ PipelineState(goPc) = "Aborted"
    /\ series = <<>>
    /\ \A i \in 1..Len(stdout) :
         stdout[i].line \notin {"teamflashed", "df", "describe"}

\* C9: every round record returned has an endReason of the closed set: a stored
\* reason outside the set makes the request fail with UnmappedEndReasonError.
C9_EndReasonClosed ==
  response.op = "getMatchRounds" =>
    /\ response.status = "ok" =>
         \A i \in 1..Len(response.body) :
           response.body[i].endReason \in RoundEndReason
    /\ response.status \in {"ok", "NotFoundError", "UnmappedEndReasonError"}

\* C10: ctScore + tScore equals the number of RoundEnd events observed outside
\* warmup; a warmup RoundEnd adds nothing to either score.
LiveRoundEnds == {i \in 1..Len(roundEnds) : ~roundEnds[i].isWarmup}

C10_ScoreSum == ctScore + tScore = Cardinality(LiveRoundEnds)

\* warmup and live RoundEnd events, both sides having won a live round
C10_Witness ==
  /\ Len(roundEnds) = 3
  /\ roundEnds[1].isWarmup
  /\ ctScore = 1
  /\ tScore = 1

\* C11: a stream whose live rounds are round 1 ended by the bomb explosion (T
\* win) and round 2 ended by CT elimination (CT win) yields exactly two
\* RoundRecords, in order: TARGET_BOMBED with scores (ct 0, t 1), then
\* CT_ELIMINATION with scores (ct 1, t 1); each record's scores include the
\* round's own result.
LiveRoundEndSeq == SelectSeq(roundEnds, LAMBDA e : ~e.isWarmup)

ScenarioTwoRounds ==
  /\ Len(LiveRoundEndSeq) = 2
  /\ LiveRoundEndSeq[1].winner = "T" /\ LiveRoundEndSeq[1].reason = 1
  /\ LiveRoundEndSeq[2].winner = "CT" /\ LiveRoundEndSeq[2].reason = 8

C11_TwoRoundRecords ==
  ScenarioTwoRounds =>
    /\ aggState = "Streaming"
    /\ Len(roundRecords) = 2
    /\ roundRecords[1].roundNumber = 1
    /\ roundRecords[1].endReason = "TARGET_BOMBED"
    /\ roundRecords[1].ctScoreAfter = 0 /\ roundRecords[1].tScoreAfter = 1
    /\ roundRecords[2].roundNumber = 2
    /\ roundRecords[2].endReason = "CT_ELIMINATION"
    /\ roundRecords[2].ctScoreAfter = 1 /\ roundRecords[2].tScoreAfter = 1
    /\ ctScore = 1 /\ tScore = 1

\* the two live rounds of the scenario after a round of the warmup
C11_Witness ==
  /\ ScenarioTwoRounds
  /\ Len(roundEnds) = 3
  /\ roundEnds[1].isWarmup
  /\ Len(roundRecords) = 2

\* C14: getMatchKills returns exactly the kill records of the requested
\* match, each once, ascending by roundNumber and within a round by tick, and
\* the file-backed and the SQL-backed service return them in the same order.
WithoutId(rec) == [f \in (DOMAIN rec) \ {"id"} |-> rec[f]]

\* body holds every row of the match once, ascending in (roundNumber, tick)
ExactSortedKills(resp) ==
  LET R == RowsOfMatch(killsTable, resp.matchId)
      n == Len(resp.body)
  IN /\ n = Cardinality(R)
     /\ \E o \in [1..n -> R] :
          /\ \A i, j \in 1..n : i # j => o[i] # o[j]
          /\ \A i \in 1..n :
               WithoutId(resp.body[i]) = WithoutId(KillOfRow(killsTable[o[i]], 0))
     /\ \A i \in 1..(n - 1) :
          \/ resp.body[i].roundNumber < resp.body[i + 1].roundNumber
          \/ /\ resp.body[i].roundNumber = resp.body[i + 1].roundNumber
             /\ resp.body[i].tick <= resp.body[i + 1].tick

FileKillsExactSorted ==
  (response.op = "getMatchKills" /\ response.status = "ok") =>
     ExactSortedKills(response)

SqlKillsExactSorted ==
  (sqlResponse.op = "getMatchKills" /\ sqlResponse.status = "ok") =>
     ExactSortedKills(sqlResponse)

C14_KillsSortedSameOrder ==
  /\ FileKillsExactSorted
  /\ SqlKillsExactSorted
  /\ (/\ response.op = "getMatchKills"
      /\ sqlResponse.op = "getMatchKills"
      /\ response.matchId = sqlResponse.matchId) =>
        /\ response.status = sqlResponse.status
        /\ Len(response.body) = Len(sqlResponse.body)
        /\ \A i \in 1..Len(response.body) :
             WithoutId(response.body[i]) = WithoutId(sqlResponse.body[i])

\* C13: for two kill records of one match with r1.roundNumber < r2.roundNumber,
\* r1.tick is not larger than the tick of any event of r2's round; hence the
\* kill list ordered by (roundNumber, tick) is non-decreasing in tick alone.
C13_RoundsOrderTicks ==
  /\ \A i, j \in 1..Len(killsTable) :
       (/\ killsTable[i].match_id = killsTable[j].match_id
        /\ killsTable[i].round_number < killsTable[j].round_number)
         => killsTable[i].tick <= killsTable[j].tick
  /\ (response.op = "getMatchKills" /\ response.status = "ok") =>
       /\ ExactSortedKills(response)
       /\ \A i, j \in 1..Len(response.body) :
            i < j => response.body[i].tick <= response.body[j].tick

\* three kills over two rounds, written to the file in another order
C13_Witness ==
  /\ response.op = "getMatchKills"
  /\ response.status = "ok"
  /\ Len(response.body) = 3
  /\ response.body[1].roundNumber < response.body[3].roundNumber
  /\ response.body[1].tick < response.body[2].tick
  /\ response.body[2].roundNumber = response.body[1].roundNumber
  /\ killsTable[1].tick > killsTable[3].tick

\* the rows the file-backed service maps, in the order of its answer
AnsweredRows == getKillsByMatchId(killsTable, response.matchId)

\* C16: flashAssist of a kill record is true only if an assister is present
\* and the death event's assist-type flag marks a flash assist; a record
\* without an assister has flashAssist = false and a generic assist never
\* sets it.
C16_FlashAssist ==
  (response.op = "getMatchKills" /\ response.status = "ok") =>
    /\ Len(response.body) = Len(AnsweredRows)
    /\ \A i \in 1..Len(response.body) :
         LET rec == response.body[i]
             e == AnsweredRows[i].event
         IN /\ rec.flashAssist => (rec.assisterName # "" /\ e.assistedflash)
            /\ rec.assisterName = "" => ~rec.flashAssist
            /\ (e.assister_name # "" /\ ~e.assistedflash) => ~rec.flashAssist
            /\ rec.assisterName = e.assister_name

\* a flash assist, a generic assist and a flag without an assister
C16_Witness ==
  /\ response.op = "getMatchKills"
  /\ response.status = "ok"
  /\ Len(response.body) = 3
  /\ \E i, j, k \in 1..3 :
       /\ response.body[i].flashAssist
       /\ response.body[j].assisterName # "" /\ ~response.body[j].flashAssist
       /\ AnsweredRows[k].event.assistedflash /\ response.body[k].assisterName = ""

C20_OneRecordPerPlayer ==
  pc = "responded" =>
    /\ \A p \in Players :
         Cardinality({i \in 1..Len(playerRecords) :
                        playerRecords[i].user_steamid = SteamIdOf(p)}) = 1
    /\ \A i, j \in 1..Len(order) :
         i # j => SteamIdOf(order[i]) # SteamIdOf(order[j])

\* C18: the weapon counters reconcile at every level: every record of a
\* player, a weapon and a match has headshots <= kills and hits <= shots; the
\* totals of a weapon are the sums over the player's records and keep
\* total_headshots <= total_kills and total_hits <= total_shots; the derived
\* headshotPercentage and accuracy lie between 0 and 100.
RECURSIVE SumOfRows(_, _, _, _, _)
SumOfRows(table, i, sid, w, f) ==
  IF i = 0 THEN 0
  ELSE (IF table[i].steam_id = sid /\ table[i].weapon = w THEN table[i][f] ELSE 0)
       + SumOfRows(table, i - 1, sid, w, f)

WeaponSum(sid, w, f) == SumOfRows(weaponTable, Len(weaponTable), sid, w, f)

C18_WeaponCountersReconcile ==
  /\ \A i \in 1..Len(weaponTable) :
       /\ 0 <= weaponTable[i].headshots
       /\ weaponTable[i].headshots <= weaponTable[i].kills
       /\ 0 <= weaponTable[i].hits
       /\ weaponTable[i].hits <= weaponTable[i].shots
  /\ response.op = "getPlayerWeapons" =>
       \A i \in 1..Len(response.body) :
         LET a == response.body[i]
         IN /\ a.totalKills = WeaponSum(response.steamId, a.weapon, "kills")
            /\ a.totalHeadshots = WeaponSum(response.steamId, a.weapon, "headshots")
            /\ a.totalShots = WeaponSum(response.steamId, a.weapon, "shots")
            /\ a.totalHits = WeaponSum(response.steamId, a.weapon, "hits")
            /\ a.totalHeadshots <= a.totalKills
            /\ a.totalHits <= a.totalShots
            /\ 0 <= a.headshotPercentage /\ a.headshotPercentage <= 10000
            /\ 0 <= a.accuracy /\ a.accuracy <= 10000

\* a weapon used in two matches, two kills of which one by a headshot
C18_Witness ==
  /\ response.op = "getPlayerWeapons"
  /\ \E i \in 1..Len(response.body) :
       /\ response.body[i].matchesUsed = 2
       /\ response.body[i].totalKills = 2
       /\ response.body[i].totalHeadshots = 1
       /\ response.body[i].headshotPercentage = 5000
  /\ \E j \in 1..Len(weaponTable) : weaponTable[j].steam_id # response.steamId

\* C19: the chat log of a match has one entry per chat message of the match,
\* in non-decreasing tick order and without deduplication (k equal messages
\* give k entries); messages of other matches never appear and
\* chatMessageCount is the number of entries.
CountIn(seq, x) == Cardinality({i \in 1..Len(seq) : seq[i] = x})

C19_ChatLog ==
  (response.op = "getMatchSentimentData" /\ response.status = "ok") =>
    LET log == response.chatMessages
        mine == SelectSeq(chatTable, LAMBDA r : r.match_id = response.matchId)
    IN /\ Len(log) = Len(mine)
       /\ response.chatMessageCount = Len(log)
       /\ \A i \in 1..Len(log) : log[i].matchId = response.matchId
       /\ \A i \in 1..Len(mine) :
            CountIn(log, ChatMessageOfRow(mine[i]))
              = CountIn(mine, mine[i])
       /\ \A i, j \in 1..Len(log) : i < j => log[i].tick <= log[j].tick

\* two equal messages of one tick and a message of another match
C19_Witness ==
  /\ response.op = "getMatchSentimentData"
  /\ response.status = "ok"
  /\ response.chatMessageCount = 2
  /\ response.chatMessages[1] = response.chatMessages[2]
  /\ Len(chatTable) = 3
  /\ \E i \in 1..3 : chatTable[i].match_id # response.matchId

\* the scenario of C21: the two instances are to process different demo files
DemoOf(i) == IF i = 1 THEN "nukeDemo.dem" ELSE "otherDemo.dem"

\* what instance i returns when it runs alone on the demo at path
AloneRecords(path) == getFlashes(demoFiles[path], <<>>)

\* every returned instance holds what a run on its own of the file the
\* module constant names returns: the interleaving changes nothing
TasksIsolated ==
  \A i \in Instances :
    task[i].pc = "returned" => task[i].leaderboard = AloneRecords(filePath)

\* C21: two pipeline instances that process different demo files
\* concurrently, under any interleaving of their steps, each produce exactly
\* the record set they produce when run alone on their own file: no instance
\* reads state it shares with the other (no ambient globals).
C21_InstancesIndependent ==
  \A i \in Instances :
    task[i].pc = "returned" => task[i].leaderboard = AloneRecords(DemoOf(i))

\* the player_death events outside warmup whose attacker team differs from
\* the victim's team
CountedDeaths ==
  {i \in 1..Len(deaths) :
     /\ deaths[i].is_warmup_period = FALSE
     /\ deaths[i].attacker_team_name # deaths[i].user_team_name}

RECURSIVE SumOfMap(_, _)
SumOfMap(m, ks) ==
  IF ks = {} THEN 0
  ELSE LET k == CHOOSE x \in ks : TRUE
       IN m[k] + SumOfMap(m, ks \ {k})

\* C22: killsPerRound reports for each attacker name the number of
\* player_death events outside warmup whose attacker team differs from the
\* victim's team: each such event is counted exactly once by the loop over
\* the rounds 0..latest, team kills and warmup kills are never counted, only
\* attackers with such an event have an entry, and the counts over all
\* attackers sum to the number of such events.
C22_KillsPerRound ==
  pc = "killsReturned" =>
    /\ \A p \in Players :
         MapGetOr(killsPerPlayer, p, 0)
           = Cardinality({i \in CountedDeaths : deaths[i].attacker_name = p})
    /\ DOMAIN killsPerPlayer = {deaths[i].attacker_name : i \in CountedDeaths}
    /\ SumOfMap(killsPerPlayer, DOMAIN killsPerPlayer) = Cardinality(CountedDeaths)

\* a warmup kill, a kill of round 0 and a kill of round 1, one of them a team
\* kill: the loop ran over two rounds and one event was counted
C22_Witness ==
  /\ pc = "killsReturned"
  /\ Len(deaths) = 3
  /\ latestRoundWithKill = 1
  /\ \E i, j, k \in 1..3 :
       /\ deaths[i].is_warmup_period
       /\ ~deaths[j].is_warmup_period /\ ~deaths[k].is_warmup_period
       /\ deaths[j].total_rounds_played = 0 /\ deaths[k].total_rounds_played = 1
       /\ deaths[j].attacker_team_name = deaths[j].user_team_name
       /\ deaths[k].attacker_team_name # deaths[k].user_team_name
  /\ Cardinality(CountedDeaths) = 1
  /\ SumOfMap(killsPerPlayer, DOMAIN killsPerPlayer) = 1

\* the positions of the flash_stats rows of steam id s
FlashRowsOf(s) == {i \in 1..Len(flashStats) : flashStats[i].steam_id = s}

RECURSIVE SumFlashed(_)
SumFlashed(rows) ==
  IF rows = {} THEN 0
  ELSE LET i == CHOOSE x \in rows : TRUE
       IN flashStats[i].teammates_flashed + SumFlashed(rows \ {i})

LastOf(rows) == CHOOSE i \in rows : \A j \in rows : j <= i

\* the steam ids with at least one teammate flashed over all their rows
TeamFlashers == {s \in SteamIds : SumFlashed(FlashRowsOf(s)) > 0}

\* the response holds the whole leaderboard on its one page
WholeBoard(resp) ==
  /\ resp.op = "getTeamFlashLeaderboard"
  /\ resp.page = 1
  /\ resp.limit >= Cardinality(SteamIds)

\* C23: getTeamFlashLeaderboard returns exactly one entry per steam id whose
\* teammates_flashed summed over all of its flash_stats records is greater
\* than 0, with total_teammates_flashed equal to that sum, match_count equal
\* to the number of those records and name equal to the name on the last
\* record read; the entries are ordered by non-increasing
\* total_teammates_flashed and players with a sum of 0 never appear.
C23_TeamFlashLeaderboard ==
  WholeBoard(response) =>
    LET items == response.items
    IN /\ Len(items) = Cardinality(TeamFlashers)
       /\ {items[i].steamId : i \in 1..Len(items)} = TeamFlashers
       /\ \A i \in 1..Len(items) :
            LET rows == FlashRowsOf(items[i].steamId)
            IN /\ items[i].totalTeammatesFlashed = SumFlashed(rows)
               /\ items[i].matchCount = Cardinality(rows)
               /\ items[i].name = flashStats[LastOf(rows)].name
       /\ \A i, j \in 1..Len(items) :
            i < j => items[i].totalTeammatesFlashed >= items[j].totalTeammatesFlashed

\* a player with two rows under two names ranked above a player stored
\* first, and no entry for the rows that sum to 0
C23_Witness ==
  /\ WholeBoard(response)
  /\ Len(flashStats) = 3
  /\ Len(response.items) = 1
  /\ Cardinality(FlashRowsOf(response.items[1].steamId)) = 2
  /\ \E i, j \in FlashRowsOf(response.items[1].steamId) :
       i < j /\ flashStats[i].name # flashStats[j].name
  /\ flashStats[1].steam_id # response.items[1].steamId

\* the results i..j of the history are all of one kind
RunOf(kind, i, j) == \A k \in i..j : performanceHistory[k] = kind

\* the length of the longest run of consecutive results of one kind
LongestRun(kind) ==
  LET n == Len(performanceHistory)
  IN CHOOSE l \in 0..n :
       /\ l = 0 \/ \E i \in 1..n : i + l - 1 <= n /\ RunOf(kind, i, i + l - 1)
       /\ \A i, j \in 1..n : (i <= j /\ RunOf(kind, i, j)) => j - i + 1 <= l

\* the number of results of one kind the history ends with
TrailingRun(kind) ==
  LET n == Len(performanceHistory)
  IN CHOOSE l \in 0..n :
       /\ RunOf(kind, n - l + 1, n)
       /\ l < n => performanceHistory[n - l] # kind

\* C24: for every sequence of match results in date order, longestWinStreak
\* is the length of the longest run of consecutive WIN results and
\* longestLossStreak that of the longest run of consecutive LOSS results,
\* where a TIE or a result of the other kind ends a run; both are 0 when the
\* kind never occurs.
C24_LongestStreaks ==
  streakLoop.pc = "returned" =>
    /\ milestones.longestWinStreak = LongestRun("WIN")
    /\ milestones.longestLossStreak = LongestRun("LOSS")
    /\ (\A k \in 1..Len(performanceHistory) : performanceHistory[k] # "WIN")
         => milestones.longestWinStreak = 0
    /\ (\A k \in 1..Len(performanceHistory) : performanceHistory[k] # "LOSS")
         => milestones.longestLossStreak = 0

\* WIN, TIE, WIN, WIN: the tie ends the first run, no loss at all
C24_Witness ==
  /\ streakLoop.pc = "returned"
  /\ performanceHistory = <<"WIN", "TIE", "WIN", "WIN">>
  /\ milestones.longestWinStreak = 2
  /\ milestones.longestLossStreak = 0

\* C25: for every non-empty sequence of match results in date order,
\* currentStreak is +k with currentStreakType WIN when the sequence ends with
\* exactly k >= 1 consecutive WINs, -k with type LOSS when it ends with
\* exactly k >= 1 consecutive LOSSes, and 0 with type "" when the last result
\* is a TIE; its absolute value never exceeds the longest streak of the same
\* type.
C25_CurrentStreak ==
  (streakLoop.pc = "returned" /\ Len(performanceHistory) > 0) =>
    LET last == performanceHistory[Len(performanceHistory)]
    IN /\ last = "WIN" =>
            /\ milestones.currentStreak = TrailingRun("WIN")
            /\ milestones.currentStreak >= 1
            /\ milestones.currentStreakType = "WIN"
            /\ milestones.currentStreak <= milestones.longestWinStreak
       /\ last = "LOSS" =>
            /\ milestones.currentStreak = -TrailingRun("LOSS")
            /\ milestones.currentStreak <= -1
            /\ milestones.currentStreakType = "LOSS"
            /\ -milestones.currentStreak <= milestones.longestLossStreak
       /\ last = "TIE" =>
            /\ milestones.currentStreak = 0
            /\ milestones.currentStreakType = ""

\* WIN, WIN, LOSS, LOSS: the career ends on two losses after a win streak
C25_Witness ==
  /\ streakLoop.pc = "returned"
  /\ performanceHistory = <<"WIN", "WIN", "LOSS", "LOSS">>
  /\ milestones.currentStreak = -2
  /\ milestones.currentStreakType = "LOSS"

\* the least number of pages of pager.limit items that hold all entries
PagesNeeded ==
  CHOOSE k \in 0..Len(entries) :
    /\ k * pager.limit >= Len(entries)
    /\ \A j \in 0..(k - 1) : j * pager.limit < Len(entries)

RECURSIVE ConcatItems(_)
ConcatItems(k) == IF k = 0 THEN <<>> ELSE ConcatItems(k - 1) \o pager.pages[k].items

\* the whole list as the service returns its rows
WholeList == [i \in 1..Len(entries) |-> ItemOf(pager.service, entries[i])]

\* the pages the client has seen are consecutive slices of the list in its
\* order, full but for the last, empty past the last, with the right totals
PagesSliceTheList ==
  LET seen == Len(pager.pages)
      inList == IF seen < PagesNeeded THEN seen ELSE PagesNeeded
      got == ConcatItems(inList)
  IN /\ \A p \in 1..seen :
          /\ pager.pages[p].status = "ok"
          /\ pager.pages[p].total = Len(entries)
          /\ pager.pages[p].totalPages = PagesNeeded
          /\ Len(pager.pages[p].items) <= pager.limit
          /\ p < PagesNeeded => Len(pager.pages[p].items) = pager.limit
          /\ p = PagesNeeded => Len(pager.pages[p].items) >= 1
          /\ p > PagesNeeded => pager.pages[p].items = <<>>
     /\ Len(got) <= Len(entries)
     /\ got = SubSeq(WholeList, 1, Len(got))
     /\ seen >= PagesNeeded => got = WholeList

\* C26 as stated: for any list of n entries and any limit, the pages
\* 1..ceil(n/L) of a paginated service are consecutive, pairwise disjoint
\* slices whose concatenation in page order is the whole list in its order:
\* every page has at most L items, only the last may have fewer, any page
\* beyond ceil(n/L) is empty, totalPages is ceil(n/L) and total is n.
C26_PagesPartitionAnyList == pager.service # "" => PagesSliceTheList

\* C26: as above for every list of MatchService.getMatches and of
\* FlashService.getTeamFlashLeaderboard and for every list of at least one
\* entry of PlayerService.getPlayerMatches; for an empty list
\* getPlayerMatches answers every page with NotFoundError.
C26_PagesPartitionList ==
  pager.service # "" =>
    IF pager.service = "getPlayerMatches" /\ Len(entries) = 0
    THEN \A p \in 1..Len(pager.pages) : pager.pages[p].status = "NotFoundError"
    ELSE PagesSliceTheList

\* three entries in pages of two: a full page, a page of one, an empty page
C26_Witness ==
  /\ pager.service = "getPlayerMatches"
  /\ pager.limit = 2
  /\ Len(entries) = 3
  /\ Len(pager.pages) = 3
  /\ Len(pager.pages[1].items) = 2
  /\ Len(pager.pages[2].items) = 1
  /\ pager.pages[3].items = <<>>
  /\ pager.pages[1].totalPages = 2

\* C27: every paginated controller hands its service a page >= 1 and a limit
\* between 1 and 100, whatever the page and limit query parameters are
\* (absent, non-numeric, zero, negative, or above 100); a request that cannot
\* be brought into that range is rejected with BadRequestError instead of
\* reaching the service.
C27_PageLimitInRange ==
  request.outcome = "service" =>
    /\ request.page >= 1
    /\ request.limit >= 1
    /\ request.limit <= 100

\* the part of C27 that the code keeps: no limit above 100 and no page 0
\* reaches a service, and the two controllers that test the page hand over a
\* page >= 1
PageLimitUpperRange ==
  request.outcome = "service" =>
    /\ request.limit <= 100
    /\ request.page # 0
    /\ ChecksPage(request.controller) => request.page >= 1

\* the script exited with code 0 and its accumulated stdout is JSON
ScriptSucceeded ==
  /\ script.state = "closed"
  /\ script.code = 0
  /\ script.stdout \in {<<"{", "}">>, <<"null">>}

C29_PoolClosedOnce ==
  /\ pool.endCalls <= 1
  /\ pool.endCalls >= 1 => httpServer.state = "closed"
  /\ (exit.done /\ exit.code = 0) => (pool.state = "ended" /\ pool.endCalls = 1)

\* the part of C29 that holds for every number of signals: pool.end() is
\* called only after the server has closed, and code 0 only after the pool
\* has ended
ShutdownOrder ==
  /\ pool.endCalls >= 1 => httpServer.state = "closed"
  /\ (exit.done /\ exit.code = 0) => pool.state = "ended"

\* with one signal the pool is closed exactly once
OneSignalClosesOnce == Len(signals) <= 1 => pool.endCalls <= 1

\* both implementations have answered the same page with the same limit
SameRequest ==
  /\ response.op = "getTeamFlashLeaderboard"
  /\ sqlResponse.op = "getTeamFlashLeaderboard"
  /\ response.page = sqlResponse.page
  /\ response.limit = sqlResponse.limit

\* C30: for the same flash_stats contents and the same page and limit,
\* getTeamFlashLeaderboard of the file-backed and of the SQL-backed
\* FlashService returns the same items in the same order and the same total
\* and totalPages, and in both total is the number of leaderboard entries
\* (players with at least one teammate flashed), so paging 1..totalPages
\* reaches every entry and returns no empty page.
C30_FileMimicsSql ==
  /\ SameRequest =>
       /\ response.items = sqlResponse.items
       /\ response.total = sqlResponse.total
       /\ response.totalPages = sqlResponse.totalPages
  /\ response.op = "getTeamFlashLeaderboard" =>
       /\ response.total = Cardinality(TeamFlashers)
       /\ (response.page <= response.totalPages) => response.items # <<>>
  /\ sqlResponse.op = "getTeamFlashLeaderboard" =>
       /\ sqlResponse.total = Cardinality(TeamFlashers)
       /\ (sqlResponse.page <= sqlResponse.totalPages) => sqlResponse.items # <<>>

\* the file-backed service alone counts the leaderboard entries and returns
\* no empty page up to totalPages
FileBoardTotals ==
  response.op = "getTeamFlashLeaderboard" =>
    /\ response.total = Cardinality(TeamFlashers)
    /\ (response.page <= response.totalPages) => response.items # <<>>

====
